---------------------------- MODULE Spec2Model ----------------------------
(***************************************************************************)
(* Model of src/app.py: the sales report pipeline (column and numeric      *)
(* normalisation, order aggregation), the identity resolver, the goal      *)
(* store handlers (admin_metas, admin_historico, admin_config) and the     *)
(* attainment classification.                                              *)
(*                                                                         *)
(* Text is a sequence of one-character strings, so that strip, upper,      *)
(* lower and replace are computed and not assumed.  A number is a decimal  *)
(* m * 10^-e; a float carries kind "float" and an integer kind "int",      *)
(* because str() prints them differently ("2" and "2.0").                  *)
(***************************************************************************)
EXTENDS Integers, Sequences, FiniteSets, TLC

(***************************************************************************)
(* Python values that reach the modelled functions.                        *)
(***************************************************************************)
None == [k |-> "none"]
NaN == [k |-> "nan"]
\* a call that ends in an exception
Raised(name) == [k |-> "raised", name |-> name]
Str(s) == [k |-> "str", s |-> s]
PyInt(n) == [k |-> "int", m |-> n, e |-> 0]

RECURSIVE Pow10(_)
Pow10(n) == IF n = 0 THEN 1 ELSE 10 * Pow10(n - 1)

\* A float in canonical form: no trailing zero in the fraction.
RECURSIVE PyFloat(_, _)
PyFloat(m, e) ==
    IF e > 0 /\ m % 10 = 0 THEN PyFloat(m \div 10, e - 1)
    ELSE [k |-> "float", m |-> m, e |-> e]

IsNum(v) == v.k \in {"int", "float"}

\* a < b, a = b on decimals of either kind
NumLess(a, b) == a.m * Pow10(b.e) < b.m * Pow10(a.e)
NumEq(a, b) == a.m * Pow10(b.e) = b.m * Pow10(a.e)
NumLeq(a, b) == NumLess(a, b) \/ NumEq(a, b)

MaxOf(a, b) == IF a >= b THEN a ELSE b

NumAdd(a, b) ==
    LET e == MaxOf(a.e, b.e)
        m == a.m * Pow10(e - a.e) + b.m * Pow10(e - b.e)
    IN  IF a.k = "int" /\ b.k = "int" THEN PyInt(m) ELSE PyFloat(m, e)

(***************************************************************************)
(* Text operations: str.strip, str.upper, str.lower, str.replace.          *)
(***************************************************************************)
Digits == <<"0", "1", "2", "3", "4", "5", "6", "7", "8", "9">>
IsDigit(c) == \E i \in 1..10 : Digits[i] = c
DigitVal(c) == (CHOOSE i \in 1..10 : Digits[i] = c) - 1

LowerLetters ==
    <<"a", "b", "c", "d", "e", "f", "g", "h", "i", "j", "k", "l", "m",
      "n", "o", "p", "q", "r", "s", "t", "u", "v", "w", "x", "y", "z">>
UpperLetters ==
    <<"A", "B", "C", "D", "E", "F", "G", "H", "I", "J", "K", "L", "M",
      "N", "O", "P", "Q", "R", "S", "T", "U", "V", "W", "X", "Y", "Z">>

LetterIndex(letters, c) == CHOOSE i \in 1..Len(letters) : letters[i] = c
IsLetterOf(letters, c) == \E i \in 1..Len(letters) : letters[i] = c

UpperChar(c) ==
    IF IsLetterOf(LowerLetters, c)
    THEN UpperLetters[LetterIndex(LowerLetters, c)]
    ELSE c

LowerChar(c) ==
    IF IsLetterOf(UpperLetters, c)
    THEN LowerLetters[LetterIndex(UpperLetters, c)]
    ELSE c

\* the characters that occur in the modelled texts
Chars ==
    {LowerLetters[i] : i \in 1..26} \cup {UpperLetters[i] : i \in 1..26}
        \cup {Digits[i] : i \in 1..10}
        \cup {" ", "-", "+", ".", ",", "$", "_", "/"}

UpperMap == [c \in Chars |-> UpperChar(c)]
LowerMap == [c \in Chars |-> LowerChar(c)]

Upper(s) == [i \in 1..Len(s) |-> UpperMap[s[i]]]
Lower(s) == [i \in 1..Len(s) |-> LowerMap[s[i]]]

RECURSIVE LStrip(_)
LStrip(s) == IF s # <<>> /\ Head(s) = " " THEN LStrip(Tail(s)) ELSE s

RECURSIVE RStrip(_)
RStrip(s) ==
    IF s # <<>> /\ s[Len(s)] = " " THEN RStrip(SubSeq(s, 1, Len(s) - 1)) ELSE s

Strip(s) == RStrip(LStrip(s))

StartsWith(s, p) == Len(p) <= Len(s) /\ SubSeq(s, 1, Len(p)) = p

\* s.replace(pat, rep), pat not empty: leftmost non-overlapping occurrences
RECURSIVE Replace(_, _, _)
Replace(s, pat, rep) ==
    IF s = <<>> THEN <<>>
    ELSE IF StartsWith(s, pat)
         THEN rep \o Replace(SubSeq(s, Len(pat) + 1, Len(s)), pat, rep)
         ELSE <<Head(s)>> \o Replace(Tail(s), pat, rep)

RECURSIVE IntStr(_)
IntStr(n) ==
    IF n < 0 THEN <<"-">> \o IntStr(0 - n)
    ELSE IF n < 10 THEN <<Digits[n + 1]>>
    ELSE IntStr(n \div 10) \o <<Digits[(n % 10) + 1]>>

\* exactly e digits of n, zero padded on the left
RECURSIVE FracStr(_, _)
FracStr(n, e) ==
    IF e = 0 THEN <<>> ELSE FracStr(n \div 10, e - 1) \o <<Digits[(n % 10) + 1]>>

Abs(n) == IF n < 0 THEN 0 - n ELSE n

\* repr of a float of moderate size: "1500.5", "1000.0", "-0.25"
FloatStr(v) ==
    LET a == Abs(v.m)
        p == Pow10(v.e)
    IN  (IF v.m < 0 THEN <<"-">> ELSE <<>>)
            \o IntStr(a \div p) \o <<".">>
            \o (IF v.e = 0 THEN <<"0">> ELSE FracStr(a % p, v.e))

\* str(value)
PyStr(v) ==
    CASE v.k = "str" -> v.s
      [] v.k = "int" -> IntStr(v.m)
      [] v.k = "float" -> FloatStr(v)
      [] v.k = "nan" -> <<"n", "a", "n">>
      [] v.k = "none" -> <<"N", "o", "n", "e">>

\* bool(value): None, "", 0 and 0.0 are false; NaN is true
Truthy(v) ==
    CASE v.k = "str" -> v.s # <<>>
      [] v.k \in {"int", "float"} -> v.m # 0
      [] v.k = "nan" -> TRUE
      [] v.k = "none" -> FALSE

\* value or ""
OrEmpty(v) == IF Truthy(v) THEN v ELSE Str(<<>>)

(***************************************************************************)
(* float(text): sign, digits, at most one point, at least one digit; the   *)
(* word "nan" in any case.  Anything else raises ValueError, rendered here *)
(* as None by the callers that catch it.                                   *)
(***************************************************************************)
RECURSIVE DigitsVal(_)
DigitsVal(s) ==
    IF s = <<>> THEN 0
    ELSE 10 * DigitsVal(SubSeq(s, 1, Len(s) - 1)) + DigitVal(s[Len(s)])

HasSign(s) == s # <<>> /\ Head(s) \in {"-", "+"}
Unsigned(s) == IF HasSign(s) THEN Tail(s) ELSE s
PointsOf(s) == {i \in 1..Len(s) : s[i] = "."}

IsDecimalText(s) ==
    LET b == Unsigned(s)
    IN  /\ \A i \in 1..Len(b) : IsDigit(b[i]) \/ b[i] = "."
        /\ Cardinality(PointsOf(b)) <= 1
        /\ \E i \in 1..Len(b) : IsDigit(b[i])

IsNanText(s) == Lower(Unsigned(s)) = <<"n", "a", "n">>

\* the decimal a text denotes: kind "int" without a point, else "float"
DecimalOf(s) ==
    LET b == Unsigned(s)
        sg == IF HasSign(s) /\ Head(s) = "-" THEN 0 - 1 ELSE 1
    IN  IF PointsOf(b) = {}
        THEN PyInt(sg * DigitsVal(b))
        ELSE LET p == CHOOSE i \in PointsOf(b) : TRUE
                 ip == SubSeq(b, 1, p - 1)
                 fp == SubSeq(b, p + 1, Len(b))
             IN  PyFloat(sg * (DigitsVal(ip) * Pow10(Len(fp)) + DigitsVal(fp)),
                         Len(fp))

ToFloat(v) == IF v.k = "int" THEN PyFloat(v.m, 0) ELSE v

\* float(text), None standing for ValueError
FloatOfText(s) ==
    LET t == Strip(s)
    IN  IF IsDecimalText(t) THEN ToFloat(DecimalOf(t))
        ELSE IF IsNanText(t) THEN NaN
        ELSE None

parse_ptbr_number(raw_value) ==
    IF raw_value.k = "none" THEN None
    ELSE IF raw_value.k \in {"int", "float", "nan"} THEN ToFloat(raw_value)
    ELSE LET value == Strip(raw_value.s)
         IN  IF value = <<>> THEN None
             ELSE FloatOfText(
                    Replace(
                      Replace(
                        Replace(Replace(value, <<"R", "$">>, <<>>), <<" ">>, <<>>),
                        <<".">>, <<>>),
                      <<",">>, <<".">>))

normalize_identifier(code_value, name_value) ==
    LET code == Strip(PyStr(OrEmpty(code_value)))
    IN  IF code # <<>> /\ Lower(code) # <<"n", "a", "n">>
        THEN code
        ELSE Upper(Strip(PyStr(OrEmpty(name_value))))

\* int(text): optional sign and digits; None stands for ValueError
IntOfText(s) ==
    LET t == Strip(s)
    IN  IF IsDecimalText(t) /\ PointsOf(t) = {} THEN DecimalOf(t) ELSE None

\* int(value) on a form text or on a number already held
PyIntOf(v) ==
    CASE v.k = "str" -> IntOfText(v.s)
      [] v.k = "int" -> v
      [] v.k = "float" -> PyInt(v.m \div Pow10(v.e))
      [] OTHER -> None

\* text.isdigit()
IsDigitText(s) == s # <<>> /\ \A i \in 1..Len(s) : IsDigit(s[i])

(***************************************************************************)
(* The column labels and cell texts the report functions name.             *)
(***************************************************************************)
VENDEDOR == <<"V", "E", "N", "D", "E", "D", "O", "R">>
CODIGO == <<"C", "O", "D", "I", "G", "O">>
DOCUMENTO == <<"D", "O", "C", "U", "M", "E", "N", "T", "O">>
NUM_OS == <<"N", "U", "M", "_", "O", "S">>
CODIGO_PEDIDO == <<"C", "O", "D", "I", "G", "O", "_", "P", "E", "D", "I", "D", "O">>
NUM_PE == <<"N", "U", "M", "_", "P", "E">>
NUM_FA == <<"N", "U", "M", "_", "F", "A">>
TOTAL_NOTA == <<"T", "O", "T", "A", "L", "_", "N", "O", "T", "A">>
TOTAL_BRUTO == <<"T", "O", "T", "A", "L", "_", "B", "R", "U", "T", "O">>
CLIENTE == <<"C", "L", "I", "E", "N", "T", "E">>
CODIGO_VENDEDOR == <<"C", "O", "D", "I", "G", "O", "_", "V", "E", "N", "D", "E", "D", "O", "R">>
CODIGO_REPRESENTANTE == <<"C", "O", "D", "I", "G", "O", "_", "R", "E", "P", "R", "E", "S", "E", "N", "T", "A", "N", "T", "E">>
ID_REPRESENTANTE == <<"I", "D", "_", "R", "E", "P", "R", "E", "S", "E", "N", "T", "A", "N", "T", "E">>
ID_REP == <<"I", "D", "_", "R", "E", "P">>
COD == <<"C", "O", "D">>
NOME_VENDEDOR == <<"N", "O", "M", "E", "_", "V", "E", "N", "D", "E", "D", "O", "R">>
REPRESENTANTE == <<"R", "E", "P", "R", "E", "S", "E", "N", "T", "A", "N", "T", "E">>
NOME_REPRESENTANTE == <<"N", "O", "M", "E", "_", "R", "E", "P", "R", "E", "S", "E", "N", "T", "A", "N", "T", "E">>
NOME == <<"N", "O", "M", "E">>
QTDEITEM == <<"Q", "T", "D", "E", "I", "T", "E", "M">>
ITENS == <<"I", "T", "E", "N", "S">>
ITENS_VENDIDOS == <<"I", "T", "E", "N", "S", "_", "V", "E", "N", "D", "I", "D", "O", "S">>
QTDE_ITEM == <<"Q", "T", "D", "E", "_", "I", "T", "E", "M">>
QTDE_ITENS == <<"Q", "T", "D", "E", "_", "I", "T", "E", "N", "S">>
NUM_ITENS == <<"N", "U", "M", "_", "I", "T", "E", "N", "S">>
TOTAL_PEDIDOS == <<"T", "O", "T", "A", "L", "_", "P", "E", "D", "I", "D", "O", "S">>
PEDIDOS == <<"P", "E", "D", "I", "D", "O", "S">>
QTDE_PEDIDOS == <<"Q", "T", "D", "E", "_", "P", "E", "D", "I", "D", "O", "S">>
TOTALPEDIDOS == <<"T", "O", "T", "A", "L", "P", "E", "D", "I", "D", "O", "S">>
TOTAL_CLIENTES == <<"T", "O", "T", "A", "L", "_", "C", "L", "I", "E", "N", "T", "E", "S">>
CLIENTES == <<"C", "L", "I", "E", "N", "T", "E", "S">>
TOTALCLIENTES == <<"T", "O", "T", "A", "L", "C", "L", "I", "E", "N", "T", "E", "S">>
CLIENTES_ATIVOS == <<"C", "L", "I", "E", "N", "T", "E", "S", "_", "A", "T", "I", "V", "O", "S">>
ATIVOS == <<"A", "T", "I", "V", "O", "S">>
ATIVOS_CARTEIRA == <<"A", "T", "I", "V", "O", "S", "_", "C", "A", "R", "T", "E", "I", "R", "A">>
CLIENTES_NOVOS == <<"C", "L", "I", "E", "N", "T", "E", "S", "_", "N", "O", "V", "O", "S">>
NOVOS_CLIENTES == <<"N", "O", "V", "O", "S", "_", "C", "L", "I", "E", "N", "T", "E", "S">>
VLR_LIQUIDO == <<"V", "L", "R", "_", "L", "I", "Q", "U", "I", "D", "O">>
VALOR_LIQUIDO == <<"V", "A", "L", "O", "R", "_", "L", "I", "Q", "U", "I", "D", "O">>
VENDAS_LIQUIDAS == <<"V", "E", "N", "D", "A", "S", "_", "L", "I", "Q", "U", "I", "D", "A", "S">>
VALOR == <<"V", "A", "L", "O", "R">>
TOTAL_PRODUTO == <<"T", "O", "T", "A", "L", "_", "P", "R", "O", "D", "U", "T", "O">>
PRECO_MEDIO == <<"P", "R", "E", "C", "O", "_", "M", "E", "D", "I", "O">>
VALOR_MEDIO == <<"V", "A", "L", "O", "R", "_", "M", "E", "D", "I", "O">>
MEDIA_PEDIDOS == <<"M", "E", "D", "I", "A", "_", "P", "E", "D", "I", "D", "O", "S">>
MEDIA_PEDIDO == <<"M", "E", "D", "I", "A", "_", "P", "E", "D", "I", "D", "O">>
QTDE_MEDIA == <<"Q", "T", "D", "E", "_", "M", "E", "D", "I", "A">>
MEDIA_ITENS == <<"M", "E", "D", "I", "A", "_", "I", "T", "E", "N", "S">>
COD_CLIENTE == <<"C", "O", "D", "_", "C", "L", "I", "E", "N", "T", "E">>
CODIGO_CLIENTE == <<"C", "O", "D", "I", "G", "O", "_", "C", "L", "I", "E", "N", "T", "E">>
ID_CLIENTE == <<"I", "D", "_", "C", "L", "I", "E", "N", "T", "E">>
NOME_CLIENTE == <<"N", "O", "M", "E", "_", "C", "L", "I", "E", "N", "T", "E">>
CLIENTE_ATIVO == <<"C", "L", "I", "E", "N", "T", "E", "_", "A", "T", "I", "V", "O">>
STATUS_CLIENTE == <<"S", "T", "A", "T", "U", "S", "_", "C", "L", "I", "E", "N", "T", "E">>
CADASTRO_CLIENTE == <<"C", "A", "D", "A", "S", "T", "R", "O", "_", "C", "L", "I", "E", "N", "T", "E">>
DATA_CADASTRO_CLIENTE == <<"D", "A", "T", "A", "_", "C", "A", "D", "A", "S", "T", "R", "O", "_", "C", "L", "I", "E", "N", "T", "E">>
SIM == <<"S", "I", "M">>
ATIVA == <<"A", "T", "I", "V", "A">>
VERDADEIRO == <<"V", "E", "R", "D", "A", "D", "E", "I", "R", "O">>
PRECO_MEDIO_CEDILHA == <<"P", "R", "E", "Ç", "O", "_", "M", "E", "D", "I", "O">>
S_TEXT == <<"S">>
ONE_TEXT == <<"1">>
TRUE_TEXT == <<"T", "R", "U", "E">>
ATIVO == <<"A", "T", "I", "V", "O">>
NOVO == <<"N", "O", "V", "O">>
DASH == <<"-">>

(***************************************************************************)
(* A DataFrame: its column labels in order and its rows, each the tuple of *)
(* its cells in column order.  The index is 0, 1, ...                      *)
(***************************************************************************)
DataFrame(columns, rows) == [columns |-> columns, rows |-> rows]

Labels(df) == {df.columns[i] : i \in 1..Len(df.columns)}

\* df.empty
IsEmptyFrame(df) == df.columns = <<>> \/ df.rows = <<>>

\* the first column that carries the label
ColumnAt(columns, label) ==
    CHOOSE i \in 1..Len(columns) :
        columns[i] = label /\ \A j \in 1..(i - 1) : columns[j] # label

\* row.get(label) on the r-th row
RowGet(df, r, label) ==
    IF label \in Labels(df) THEN df.rows[r][ColumnAt(df.columns, label)] ELSE None

\* df[label], the cells of a column
ColumnOf(df, label) ==
    [r \in 1..Len(df.rows) |-> df.rows[r][ColumnAt(df.columns, label)]]

\* df[label] = values
SetColumn(df, label, values) ==
    IF label \in Labels(df)
    THEN DataFrame(df.columns,
                   [r \in 1..Len(df.rows) |->
                       [df.rows[r] EXCEPT ![ColumnAt(df.columns, label)] = values[r]]])
    ELSE DataFrame(Append(df.columns, label),
                   [r \in 1..Len(df.rows) |-> Append(df.rows[r], values[r])])

\* the first option among the labels; <<>> stands for None
RECURSIVE pick_column(_, _)
pick_column(labels, options) ==
    IF options = <<>> THEN <<>>
    ELSE IF Head(options) \in labels THEN Head(options)
    ELSE pick_column(labels, Tail(options))

\* rename_map[key] = value
Put(rename_map, key, value) ==
    [x \in (DOMAIN rename_map) \cup {key} |->
        IF x = key THEN value ELSE rename_map[x]]

\* df.rename(columns=rename_map)
Rename(columns, rename_map) ==
    [i \in 1..Len(columns) |->
        IF columns[i] \in DOMAIN rename_map THEN rename_map[columns[i]]
        ELSE columns[i]]

\* the signals of an order-level export without the client and the totals
order_signals_documents == {DOCUMENTO, NUM_OS, CODIGO_PEDIDO, NUM_PE, NUM_FA}

order_signals ==
    {DOCUMENTO, NUM_OS, CODIGO_PEDIDO, NUM_PE, NUM_FA, TOTAL_NOTA, TOTAL_BRUTO,
     CLIENTE}

code_options ==
    <<VENDEDOR, CODIGO_VENDEDOR, CODIGO_REPRESENTANTE, ID_REPRESENTANTE, ID_REP,
      CODIGO, COD>>

name_options == <<VENDEDOR, REPRESENTANTE, NOME_REPRESENTANTE, NOME>>

\* target and its aliases, in the order the dictionary lists them
column_aliases ==
    << <<QTDEITEM, <<ITENS, ITENS_VENDIDOS, QTDE_ITEM, QTDE_ITENS, NUM_ITENS>> >>,
       <<TOTAL_PEDIDOS, <<PEDIDOS, QTDE_PEDIDOS, TOTALPEDIDOS>> >>,
       <<TOTAL_CLIENTES, <<CLIENTES, TOTALCLIENTES>> >>,
       <<CLIENTES_ATIVOS, <<ATIVOS, CLIENTES_ATIVOS, ATIVOS_CARTEIRA>> >>,
       <<CLIENTES_NOVOS, <<CLIENTES_NOVOS, NOVOS_CLIENTES>> >>,
       <<VLR_LIQUIDO, <<VALOR_LIQUIDO, VLR_LIQUIDO, VENDAS_LIQUIDAS, VALOR,
                        TOTAL_NOTA, TOTAL_BRUTO, TOTAL_PRODUTO>> >>,
       <<PRECO_MEDIO, <<PRECO_MEDIO, PRECO_MEDIO_CEDILHA, VALOR_MEDIO>> >>,
       <<MEDIA_PEDIDOS, <<MEDIA_PEDIDOS, MEDIA_PEDIDO>> >>,
       <<QTDE_MEDIA, <<QTDE_MEDIA, MEDIA_ITENS>> >> >>

\* the loop over column_aliases: the first column found for a target is
\* renamed to it
RECURSIVE AliasRenames(_, _, _)
AliasRenames(labels, aliases, rename_map) ==
    IF aliases = <<>> THEN rename_map
    ELSE LET target == Head(aliases)[1]
             column == pick_column(labels, <<target>> \o Head(aliases)[2])
         IN  AliasRenames(labels, Tail(aliases),
                          IF column # <<>> /\ column # target
                          THEN Put(rename_map, column, target)
                          ELSE rename_map)

normalize_columns(df) ==
    LET columns == [i \in 1..Len(df.columns) |-> Upper(Strip(df.columns[i]))]
        original_columns == {columns[i] : i \in 1..Len(columns)}
        order_level ==
            /\ VENDEDOR \in original_columns
            /\ CODIGO \in original_columns
            /\ order_signals \cap original_columns # {}
        codes == IF order_level THEN Put(<<>>, CODIGO, CODIGO_PEDIDO) ELSE <<>>
        code_column == pick_column(original_columns, code_options)
        coded == IF code_column # <<>> /\ code_column # CODIGO
                 THEN Put(codes, code_column, CODIGO)
                 ELSE codes
        name_column == IF NOME_VENDEDOR \in original_columns THEN NOME_VENDEDOR
                       ELSE pick_column(original_columns, name_options)
        named == IF name_column # <<>> /\ name_column # NOME_VENDEDOR
                 THEN Put(coded, name_column, NOME_VENDEDOR)
                 ELSE coded
        rename_map == AliasRenames(original_columns, column_aliases, named)
        renamed == Rename(columns, rename_map)
        final == IF /\ \A i \in 1..Len(renamed) : renamed[i] # CODIGO
                    /\ {VENDEDOR, NOME_VENDEDOR} \subseteq original_columns
                 THEN Rename(renamed, Put(<<>>, VENDEDOR, CODIGO))
                 ELSE renamed
    IN  DataFrame(final, df.rows)

numeric_columns ==
    <<QTDEITEM, TOTAL_PEDIDOS, TOTAL_CLIENTES, CLIENTES_ATIVOS, QTDE_MEDIA,
      VLR_LIQUIDO, PRECO_MEDIO, MEDIA_PEDIDOS, CLIENTES_NOVOS>>

\* pd.to_numeric(errors="coerce") on one text: an integer, a float, or NaN
NumericOfText(s) ==
    LET t == Strip(s)
    IN  IF IsDecimalText(t) THEN DecimalOf(t) ELSE NaN

\* a numeric column has one dtype: int64 when every cell is an integer,
\* float64 otherwise
AsSeries(values) ==
    IF \A i \in 1..Len(values) : values[i].k = "int" THEN values
    ELSE [i \in 1..Len(values) |-> ToFloat(values[i])]

to_numeric(texts) == AsSeries([i \in 1..Len(texts) |-> NumericOfText(texts[i])])

\* astype(str), then "." removed, then "," turned into "."
NumericText(value) == Replace(Replace(PyStr(value), <<".">>, <<>>), <<",">>, <<".">>)

RECURSIVE NormalizeEach(_, _)
NormalizeEach(df, columns) ==
    IF columns = <<>> THEN df
    ELSE LET column == Head(columns)
             cells == ColumnOf(df, column)
         IN  NormalizeEach(
               IF column \in Labels(df)
               THEN SetColumn(df, column,
                              to_numeric([r \in 1..Len(cells) |-> NumericText(cells[r])]))
               ELSE df,
               Tail(columns))

normalize_numeric_columns(df) == NormalizeEach(df, numeric_columns)

(***************************************************************************)
(* Division.  A quotient is a float of FloatDigits significant digits,     *)
(* rounded half up; sums and parsed texts are exact.                       *)
(***************************************************************************)
FloatDigits == 6

\* the digits after the point, one by one, until the quotient is exact or
\* long enough
RECURSIVE QuotientDigits(_, _, _, _, _)
QuotientDigits(rest, divisor, m, e, digits) ==
    IF rest = 0 \/ digits >= FloatDigits
    THEN PyFloat(IF 2 * rest >= divisor THEN m + 1 ELSE m, e)
    ELSE LET d == (rest * 10) \div divisor
         IN  QuotientDigits((rest * 10) % divisor, divisor, m * 10 + d, e + 1,
                            IF m = 0 /\ d = 0 THEN 0 ELSE digits + 1)

\* a / b for b > 0
Div(a, b) ==
    LET n == Abs(a.m) * Pow10(b.e)
        d == b.m * Pow10(a.e)
        q == QuotientDigits(n % d, d, n \div d, 0,
                            IF n \div d = 0 THEN 0 ELSE Len(IntStr(n \div d)))
    IN  IF a.m < 0 THEN PyFloat(0 - q.m, q.e) ELSE q

(***************************************************************************)
(* aggregate_order_report: an order-level table becomes one row for each   *)
(* (CODIGO, NOME_VENDEDOR).                                                *)
(***************************************************************************)
\* datetime.now().year
NowYear == 2024

order_options == <<CODIGO_PEDIDO, NUM_OS, DOCUMENTO, CODIGO>>
client_options == <<CLIENTE, COD_CLIENTE, CODIGO_CLIENTE, ID_CLIENTE, NOME_CLIENTE>>
active_options == <<CLIENTE_ATIVO, STATUS_CLIENTE>>
cadastro_options == <<CADASTRO_CLIENTE, DATA_CADASTRO_CLIENTE>>

IsNull(value) == value.k \in {"none", "nan"}

\* Series.nunique(): the distinct cells of the chosen rows that are not null
NUnique(cells, rows) == Cardinality({cells[r] : r \in rows} \ {None, NaN})

ActiveWords == {SIM, S_TEXT, ATIVO, ATIVA, ONE_TEXT, TRUE_TEXT, VERDADEIRO}
IsActive(value) == Upper(Strip(PyStr(value))) \in ActiveWords

\* the year of a day-first date text dd/mm/yyyy; 0 for any other cell (NaT)
CadastroYear(value) ==
    IF /\ value.k = "str"
       /\ Len(value.s) = 10
       /\ \A i \in 1..10 : IF i \in {3, 6} THEN value.s[i] = "/"
                           ELSE IsDigit(value.s[i])
    THEN DigitsVal(SubSeq(value.s, 7, 10))
    ELSE 0

\* the characters in code point order
CharOrder ==
    <<" ", "$", "+", ",", "-", ".", "/">> \o Digits \o UpperLetters \o <<"_">>
        \o LowerLetters

CodePoint(c) == CHOOSE i \in 1..Len(CharOrder) : CharOrder[i] = c

RECURSIVE TextLess(_, _)
TextLess(a, b) ==
    IF b = <<>> THEN FALSE
    ELSE IF a = <<>> THEN TRUE
    ELSE IF Head(a) = Head(b) THEN TextLess(Tail(a), Tail(b))
    ELSE CodePoint(Head(a)) < CodePoint(Head(b))

\* the order groupby sorts its keys in: numbers by value, texts by code
\* point, null keys last
CellRank(value) == IF IsNum(value) THEN 1 ELSE IF value.k = "str" THEN 2 ELSE 3

CellLess(a, b) ==
    IF IsNum(a) /\ IsNum(b) THEN NumLess(a, b)
    ELSE IF a.k = "str" /\ b.k = "str" THEN TextLess(a.s, b.s)
    ELSE CellRank(a) < CellRank(b)

KeyLess(a, b) == CellLess(a[1], b[1]) \/ (a[1] = b[1] /\ CellLess(a[2], b[2]))

RECURSIVE SortKeys(_)
SortKeys(keys) ==
    IF keys = {} THEN <<>>
    ELSE LET first == CHOOSE k \in keys : \A o \in keys : ~KeyLess(o, k)
         IN  <<first>> \o SortKeys(keys \ {first})

\* the sum of the chosen rows' cells, null cells skipped, in the column's dtype
RECURSIVE SumCells(_, _)
SumCells(cells, rows) ==
    IF rows = {}
    THEN IF \A i \in 1..Len(cells) : cells[i].k = "int" THEN PyInt(0)
         ELSE PyFloat(0, 0)
    ELSE LET r == CHOOSE x \in rows : TRUE
             rest == SumCells(cells, rows \ {r})
         IN  IF IsNull(cells[r]) THEN rest ELSE NumAdd(rest, cells[r])

aggregate_order_report(df) ==
    IF IsEmptyFrame(df) THEN df
    ELSE IF TOTAL_PEDIDOS \in Labels(df) \/ TOTAL_CLIENTES \in Labels(df) THEN df
    ELSE IF VLR_LIQUIDO \notin Labels(df) \/ CODIGO \notin Labels(df) THEN df
    ELSE
    LET order_column == pick_column(Labels(df), order_options)
        client_column == pick_column(Labels(df), client_options)
        active_column == pick_column(Labels(df), active_options)
        cadastro_column == pick_column(Labels(df), cadastro_options)
        qtde_column == pick_column(Labels(df), <<QTDEITEM>>)
        index == 1..Len(df.rows)
        nome == [r \in index |->
                    IF NOME_VENDEDOR \in Labels(df) THEN RowGet(df, r, NOME_VENDEDOR)
                    ELSE Str(DASH)]
        order_id == [r \in index |->
                        IF order_column # <<>> THEN RowGet(df, r, order_column)
                        ELSE PyInt(r - 1)]
        client_id == [r \in index |->
                         IF client_column # <<>> THEN RowGet(df, r, client_column)
                         ELSE None]
        active_client == {r \in index : /\ active_column # <<>>
                                        /\ IsActive(RowGet(df, r, active_column))}
        is_new_client ==
            {r \in index : /\ cadastro_column # <<>>
                           /\ CadastroYear(RowGet(df, r, cadastro_column)) = NowYear}
        key == [r \in index |-> <<RowGet(df, r, CODIGO), nome[r]>>]
        groups == SortKeys({key[r] : r \in index})
        group == [g \in 1..Len(groups) |-> {r \in index : key[r] = groups[g]}]
        vlr_liquido == [g \in 1..Len(groups) |->
                           SumCells(ColumnOf(df, VLR_LIQUIDO), group[g])]
        qtdeitem == [g \in 1..Len(groups) |->
                        IF qtde_column # <<>>
                        THEN SumCells(ColumnOf(df, QTDEITEM), group[g])
                        ELSE PyInt(0)]
        total_pedidos == [g \in 1..Len(groups) |-> PyInt(NUnique(order_id, group[g]))]
        Clients(rows) == IF client_column # <<>> THEN PyInt(NUnique(client_id, rows))
                         ELSE PyInt(0)
        summed == <<CODIGO, NOME_VENDEDOR, VLR_LIQUIDO>>
                      \o (IF qtde_column # <<>> THEN <<QTDEITEM>> ELSE <<>>)
        counted == <<TOTAL_PEDIDOS, TOTAL_CLIENTES, CLIENTES_ATIVOS, CLIENTES_NOVOS>>
                       \o (IF qtde_column # <<>> THEN <<>> ELSE <<QTDEITEM>>)
        aggregated ==
            DataFrame(
              summed \o counted,
              [g \in 1..Len(groups) |->
                  <<groups[g][1], groups[g][2], vlr_liquido[g]>>
                      \o (IF qtde_column # <<>> THEN <<qtdeitem[g]>> ELSE <<>>)
                      \o <<total_pedidos[g],
                           Clients(group[g]),
                           Clients(group[g] \cap active_client),
                           Clients(group[g] \cap is_new_client)>>
                      \o (IF qtde_column # <<>> THEN <<>> ELSE <<qtdeitem[g]>>)])
        PerOrder(value, g) == IF total_pedidos[g].m > 0
                              THEN Div(value, total_pedidos[g]) ELSE PyInt(0)
        qtde_media == [g \in 1..Len(groups) |-> PerOrder(qtdeitem[g], g)]
        preco_medio == [g \in 1..Len(groups) |->
                           IF qtdeitem[g].m > 0 THEN Div(vlr_liquido[g], qtdeitem[g])
                           ELSE PyInt(0)]
        media_pedidos == [g \in 1..Len(groups) |-> PerOrder(vlr_liquido[g], g)]
    IN  normalize_numeric_columns(
          SetColumn(SetColumn(SetColumn(aggregated,
                                        QTDE_MEDIA, AsSeries(qtde_media)),
                              PRECO_MEDIO, AsSeries(preco_medio)),
                    MEDIA_PEDIDOS, AsSeries(media_pedidos)))

\* load_report on the table read_csv or read_excel returns
load_report(df) ==
    aggregate_order_report(normalize_numeric_columns(normalize_columns(df)))

(***************************************************************************)
(* The goal store.  A store is the document load_data_store returns; of    *)
(* its keys, version and periodos are never written by a handler and the   *)
(* created_at / updated_at stamps are clock readings, so they are left     *)
(* out.  representantes is a set of records, one per key of the mapping.   *)
(***************************************************************************)
VARIABLES
    disk,       \* the persisted document (data/metas.json)
    report,     \* rows of the latest export as load_report returns them
    req,        \* the locals of the request being served, as far as it
                \* computed them; NoLocals between two requests
    resp,       \* how that request ends: message_type, errors, fault
    call,       \* a function of the module under call: its name and arguments
    ret,        \* what the call returned; Pending until it returns
    workers,    \* the requests served concurrently, each by a thread: where
                \* it stands, its form, the document it loaded, its response
    minted      \* history: the ids given to goal and history entries so far

PRIMAVERA == <<"P", "R", "I", "M", "A", "V", "E", "R", "A">>
INVERNO == <<"I", "N", "V", "E", "R", "N", "O">>
VERAO == <<"V", "E", "R", "A", "O">>
OUTONO == <<"O", "U", "T", "O", "N", "O">>

DEFAULT_COLLECTION == PRIMAVERA
COLLECTION_OPTIONS == {PRIMAVERA, INVERNO, VERAO}

default_store ==
    [representantes |-> {},
     metas_atuais |-> <<>>,
     historico_metas |-> <<>>,
     config |-> [ano_atual |-> PyInt(NowYear),
                 colecao_atual |-> Str(DEFAULT_COLLECTION),
                 ano_atual_dazul |-> None,
                 colecao_atual_dazul |-> None,
                 ano_atual_saron |-> None,
                 colecao_atual_saron |-> None]]

get_current_config(store) ==
    LET config == store.config
        ano_atual == IF Truthy(config.ano_atual) THEN config.ano_atual
                     ELSE PyInt(NowYear)
        colecao_atual == IF Truthy(config.colecao_atual) THEN config.colecao_atual
                         ELSE Str(DEFAULT_COLLECTION)
    IN  [ano_atual |-> PyIntOf(ano_atual).m,
         colecao_atual |-> Upper(PyStr(colecao_atual)),
         ano_atual_dazul |-> config.ano_atual_dazul,
         colecao_atual_dazul |-> config.colecao_atual_dazul,
         ano_atual_saron |-> config.ano_atual_saron,
         colecao_atual_saron |-> config.colecao_atual_saron]

SeqMax(ids) == CHOOSE m \in ids : \A x \in ids : x <= m

\* the next id taken from the length of the list
next_id_by_count(items) == Len(items) + 1

next_id(items) ==
    LET existing == {items[i].id : i \in 1..Len(items)}
    IN  IF existing # {} THEN SeqMax(existing) + 1 ELSE 1

RepIds(representantes) == {r.id : r \in representantes}
RepOf(representantes, rep_id) == CHOOSE r \in representantes : r.id = rep_id

\* rows are visited in order; a representative already known is left alone
RECURSIVE SyncRows(_, _, _)
SyncRows(representantes, df, r) ==
    IF r > Len(df.rows) THEN representantes
    ELSE LET codigo == RowGet(df, r, CODIGO)
             nome == IF Truthy(RowGet(df, r, NOME_VENDEDOR))
                     THEN RowGet(df, r, NOME_VENDEDOR)
                     ELSE Str(DASH)
             rep_id == normalize_identifier(codigo, nome)
         IN  SyncRows(
               IF rep_id \notin RepIds(representantes)
               THEN representantes \cup
                      {[id |-> rep_id, nome |-> nome, status |-> ATIVO]}
               ELSE representantes,
               df, r + 1)

\* the store after sync_representantes(store, df); the handlers save it
\* when it differs
sync_representantes(store, df) ==
    IF IsEmptyFrame(df) THEN store
    ELSE [store EXCEPT !.representantes = SyncRows(store.representantes, df, 1)]

\* request.form.get(name) or default
FormOr(value, default) == IF Truthy(value) THEN value ELSE default

NoLocals ==
    [handler |-> "", action |-> "", id |-> None, rep_id |-> <<>>, ano |-> None,
     colecao |-> <<>>, meta_valor |-> None, realizado_valor |-> None]

Info == [message_type |-> "info", errors |-> <<>>, fault |-> ""]
Success == [message_type |-> "success", errors |-> <<>>, fault |-> ""]
Failure(errors) == [message_type |-> "error", errors |-> errors, fault |-> ""]
\* an exception no handler catches: the request ends as a server error
Fault(name) == [message_type |-> "info", errors |-> <<>>, fault |-> name]

Outcome(store, saved, locals, response) ==
    [store |-> store, saved |-> saved, locals |-> locals, resp |-> response]

When(cond, message) == IF cond THEN <<message>> ELSE <<>>

\* rep_lookup: "id - nome" and the bare id both name the representative
RepLookupKeys(representantes) ==
    {r.id \o <<" ", "-", " ">> \o PyStr(r.nome) : r \in representantes}
        \cup RepIds(representantes)

RepLookup(representantes, rep_choice) ==
    IF rep_choice \in RepIds(representantes) THEN rep_choice
    ELSE (CHOOSE r \in representantes :
            r.id \o <<" ", "-", " ">> \o PyStr(r.nome) = rep_choice).id

FirstIndex(items, Test(_)) ==
    IF \E i \in 1..Len(items) : Test(items[i])
    THEN CHOOSE i \in 1..Len(items) :
           Test(items[i]) /\ \A j \in 1..(i - 1) : ~Test(items[j])
    ELSE 0

\* the representative record a goal save leaves for rep_id
SavedRepresentante(representantes, rep_id, rep_nome_final, status) ==
    IF rep_id \notin RepIds(representantes)
    THEN [id |-> rep_id,
          nome |-> IF rep_nome_final # <<>> THEN Str(rep_nome_final) ELSE Str(rep_id),
          status |-> IF status \in {ATIVO, NOVO} THEN status ELSE NOVO]
    ELSE LET rep_data == RepOf(representantes, rep_id)
         IN  [id |-> rep_id,
              nome |-> IF Truthy(rep_data.nome) THEN rep_data.nome
                       ELSE IF rep_nome_final # <<>> THEN Str(rep_nome_final)
                       ELSE Str(rep_id),
              status |-> IF status \in {ATIVO, NOVO} THEN status
                         ELSE rep_data.status]

\* the entry a goal save updates in place, found by period alone
MetaEntryIndexAnyRep(metas, meta_id_int, rep_id, ano, colecao) ==
    LET ById(item) == item.id = meta_id_int.m
        ByPeriod(item) == item.ano = ano /\ item.colecao = colecao
        found == IF Truthy(meta_id_int) THEN FirstIndex(metas, ById) ELSE 0
    IN  IF found # 0 THEN found ELSE FirstIndex(metas, ByPeriod)

\* the entry a goal save updates in place (0: none, a new one is appended)
MetaEntryIndex(metas, meta_id_int, rep_id, ano, colecao) ==
    LET ById(item) == item.id = meta_id_int.m
        ByKey(item) == /\ item.representante_id = rep_id
                       /\ item.ano = ano
                       /\ item.colecao = colecao
        found == IF Truthy(meta_id_int) THEN FirstIndex(metas, ById) ELSE 0
    IN  IF found # 0 THEN found ELSE FirstIndex(metas, ByKey)

\* the validation of a goal save without the rule on the value's sign
GoalErrorsAnySign(rep_id, meta_valor, colecao) ==
    When(rep_id = <<>>, "Informe o representante ou cadastre um novo.")
    \o When(meta_valor.k = "none",
            "Meta deve ser um numero valido maior ou igual a zero.")
    \o When(colecao \notin COLLECTION_OPTIONS, "Selecione uma colecao valida.")

\* the validation of a goal save: one message for each rule broken
GoalErrors(rep_id, meta_valor, colecao) ==
    When(rep_id = <<>>, "Informe o representante ou cadastre um novo.")
    \o When(meta_valor.k = "none" \/ (IsNum(meta_valor) /\ meta_valor.m < 0),
            "Meta deve ser um numero valido maior ou igual a zero.")
    \o When(colecao \notin COLLECTION_OPTIONS, "Selecione uma colecao valida.")

\* POST /admin/metas with action "save", on the store as loaded and synced
admin_metas_save(store, form) ==
    LET config == get_current_config(store)
        rep_id_0 == PyStr(OrEmpty(form.representante_id))
        rep_choice == PyStr(OrEmpty(form.representante))
        novo_nome == PyStr(OrEmpty(form.novo_representante))
        status == Upper(PyStr(FormOr(form.status_representante, Str(ATIVO))))
        ano == PyIntOf(FormOr(form.ano, PyInt(config.ano_atual)))
        colecao == Upper(PyStr(FormOr(form.colecao, Str(config.colecao_atual))))
        meta_valor == parse_ptbr_number(form.meta)
        rep_id_1 == IF rep_id_0 = <<>>
                       /\ rep_choice \in RepLookupKeys(store.representantes)
                    THEN RepLookup(store.representantes, rep_choice)
                    ELSE rep_id_0
        rep_id == IF rep_id_1 = <<>> /\ novo_nome # <<>>
                  THEN normalize_identifier(None, Str(novo_nome))
                  ELSE rep_id_1
        errors == GoalErrors(rep_id, meta_valor, colecao)
        locals == [NoLocals EXCEPT !.handler = "admin_metas", !.action = "save",
                                   !.rep_id = rep_id, !.ano = ano,
                                   !.colecao = colecao, !.meta_valor = meta_valor]
        rep_nome_final == IF novo_nome # <<>> THEN novo_nome ELSE rep_choice
        representantes ==
            {r \in store.representantes : r.id # rep_id}
                \cup {SavedRepresentante(store.representantes, rep_id,
                                         rep_nome_final, status)}
        meta_id_int == IF Truthy(form.meta_id) THEN PyIntOf(form.meta_id)
                       ELSE None
        metas == store.metas_atuais
        at == MetaEntryIndex(metas, meta_id_int, rep_id, ano.m, colecao)
        new_metas ==
            IF at # 0
            THEN [metas EXCEPT ![at] =
                    [@ EXCEPT !.representante_id = rep_id, !.ano = ano.m,
                              !.colecao = colecao, !.meta = meta_valor]]
            ELSE Append(metas,
                        [id |-> next_id(metas), representante_id |-> rep_id,
                         ano |-> ano.m, colecao |-> colecao, meta |-> meta_valor])
    IN  IF ano.k = "none"
        THEN Outcome(store, FALSE,
                     [NoLocals EXCEPT !.handler = "admin_metas", !.action = "save",
                                      !.ano = form.ano],
                     Fault("ValueError"))
        ELSE IF errors # <<>>
        THEN Outcome(store, FALSE, locals, Failure(errors))
        ELSE IF Truthy(form.meta_id) /\ meta_id_int.k = "none"
        THEN Outcome(store, FALSE, [locals EXCEPT !.id = form.meta_id],
                     Fault("ValueError"))
        ELSE Outcome([store EXCEPT !.representantes = representantes,
                                   !.metas_atuais = new_metas],
                     TRUE, [locals EXCEPT !.id = meta_id_int], Success)

\* POST /admin/metas with action "delete"
admin_metas_delete(store, form) ==
    LET meta_id_int == PyIntOf(form.meta_id)
        locals == [NoLocals EXCEPT !.handler = "admin_metas", !.action = "delete",
                                   !.id = meta_id_int]
        Keep(item) == item.id # meta_id_int.m
    IN  IF ~Truthy(form.meta_id)
        THEN Outcome(store, FALSE,
                     [NoLocals EXCEPT !.handler = "admin_metas", !.action = "delete"],
                     Info)
        ELSE IF meta_id_int.k = "none"
        THEN Outcome(store, FALSE, locals, Fault("ValueError"))
        ELSE Outcome([store EXCEPT !.metas_atuais = SelectSeq(store.metas_atuais, Keep)],
                     TRUE, locals, Success)

\* int(text) if text and text.isdigit() else None
DigitsOrNone(value) ==
    IF Truthy(value) /\ IsDigitText(PyStr(value)) THEN PyIntOf(value) ELSE None

\* value or None
OrNone(value) == IF Truthy(value) THEN value ELSE None

\* POST /admin/config
admin_config_post(store, form) ==
    LET ano_atual == form.ano_atual
        colecao_atual == form.colecao_atual
        errors ==
            When(~Truthy(ano_atual) \/ ~IsDigitText(PyStr(ano_atual)),
                 "Informe um ano atual valido.")
            \o When(colecao_atual.k = "none"
                      \/ PyStr(colecao_atual) \notin COLLECTION_OPTIONS,
                    "Selecione uma colecao valida.")
        locals == [NoLocals EXCEPT !.handler = "admin_config", !.action = "save",
                                   !.ano = ano_atual,
                                   !.colecao = PyStr(OrEmpty(colecao_atual))]
    IN  IF errors # <<>>
        THEN Outcome(store, FALSE, locals, Failure(errors))
        ELSE Outcome(
               [store EXCEPT !.config =
                  [ano_atual |-> PyIntOf(ano_atual),
                   colecao_atual |-> colecao_atual,
                   ano_atual_dazul |-> DigitsOrNone(OrNone(form.ano_atual_dazul)),
                   colecao_atual_dazul |-> OrNone(form.colecao_atual_dazul),
                   ano_atual_saron |-> DigitsOrNone(OrNone(form.ano_atual_saron)),
                   colecao_atual_saron |-> OrNone(form.colecao_atual_saron)]],
               TRUE, locals, Success)

HISTORY_LIMIT == 3

\* a cap that lets one more entry in
HistoryFullOffByOne(rep_entries) == Len(rep_entries) > HISTORY_LIMIT

\* the cap on insertion: the representative's entries fill the history
HistoryFull(rep_entries) == Len(rep_entries) >= HISTORY_LIMIT

\* POST /admin/historico with action "add" (the default) or any other
\* than "delete"
admin_historico_save(store, form) ==
    LET entry_id == form.entry_id
        rep_id == PyStr(OrEmpty(form.representante_id))
        ano == form.ano
        colecao == Upper(PyStr(OrEmpty(form.colecao)))
        meta_valor == parse_ptbr_number(form.meta)
        realizado_valor == parse_ptbr_number(form.realizado)
        errors ==
            When(rep_id = <<>>, "Informe o representante.")
            \o When(~Truthy(ano) \/ ~IsDigitText(PyStr(ano)),
                    "Informe um ano valido.")
            \o When(colecao \notin COLLECTION_OPTIONS,
                    "Selecione uma colecao valida.")
            \o When(meta_valor.k = "none"
                      \/ (IsNum(meta_valor) /\ meta_valor.m < 0),
                    "Meta deve ser um numero valido maior ou igual a zero.")
            \o When(IsNum(realizado_valor) /\ realizado_valor.m < 0,
                    "Realizado deve ser maior ou igual a zero.")
        locals == [NoLocals EXCEPT !.handler = "admin_historico", !.action = "add",
                                   !.rep_id = rep_id, !.ano = ano,
                                   !.colecao = colecao, !.meta_valor = meta_valor,
                                   !.realizado_valor = realizado_valor]
        historicos == store.historico_metas
        entry_id_int == IF Truthy(entry_id) THEN PyIntOf(entry_id) ELSE None
        ById(item) == item.id = entry_id_int.m
        at == IF Truthy(entry_id_int) THEN FirstIndex(historicos, ById) ELSE 0
        OfRep(item) == item.representante_id = rep_id
        rep_entries == SelectSeq(historicos, OfRep)
        fields == [representante_id |-> rep_id, ano |-> PyIntOf(ano).m,
                   colecao |-> colecao, meta |-> meta_valor,
                   realizado |-> realizado_valor]
        new_historicos ==
            IF at = 0
            THEN Append(historicos, [id |-> next_id(historicos)] @@ fields)
            ELSE [historicos EXCEPT ![at] = [id |-> @.id] @@ fields]
    IN  IF errors # <<>>
        THEN Outcome(store, FALSE, locals, Failure(errors))
        ELSE IF Truthy(entry_id) /\ entry_id_int.k = "none"
        THEN Outcome(store, FALSE, [locals EXCEPT !.id = entry_id],
                     Fault("ValueError"))
        ELSE IF at = 0 /\ HistoryFull(rep_entries)
        THEN Outcome(store, FALSE, [locals EXCEPT !.id = entry_id_int],
                     Failure(<<"Cada representante pode ter ate 3 colecoes no historico.">>))
        ELSE Outcome([store EXCEPT !.historico_metas = new_historicos],
                     TRUE, [locals EXCEPT !.id = entry_id_int], Success)

\* POST /admin/historico with action "delete"
admin_historico_delete(store, form) ==
    LET entry_id_int == PyIntOf(form.entry_id)
        locals == [NoLocals EXCEPT !.handler = "admin_historico",
                                   !.action = "delete", !.id = entry_id_int]
        Keep(item) == item.id # entry_id_int.m
    IN  IF ~Truthy(form.entry_id)
        THEN Outcome(store, FALSE,
                     [NoLocals EXCEPT !.handler = "admin_historico",
                                      !.action = "delete"],
                     Info)
        ELSE IF entry_id_int.k = "none"
        THEN Outcome(store, FALSE, locals, Fault("ValueError"))
        ELSE Outcome([store EXCEPT !.historico_metas =
                        SelectSeq(store.historico_metas, Keep)],
                     TRUE, locals, Success)

(***************************************************************************)
(* Requests.  Each action is one request served start to end: the store is *)
(* loaded from disk, synced with the report (and saved when the sync added *)
(* a representative), changed, and saved.                                  *)
(***************************************************************************)
MaxMetaId == 2
MaxHistId == 4
SmallListId == 1

vars == <<disk, report, req, resp, call, ret, workers, minted>>

TxtAna == <<"A", "n", "a">>
Txt_ana == <<"a", "n", "a">>
Txt7 == <<"7">>
Txt7Ana == <<"7", " ", "-", " ", "A", "n", "a">>
TxtAbc == <<"a", "b", "c">>

\* no file in the export directory, or a report of one representative
NoReport == DataFrame(<<>>, <<>>)

ReportInputs ==
    {NoReport,
     DataFrame(<<CODIGO, NOME_VENDEDOR>>, << <<PyInt(7), Str(TxtAna)>> >>)}

IdInputs(maxId) ==
    {None, Str(<<"x">>)} \cup {Str(IntStr(i)) : i \in 1..maxId}

\* (representante_id, representante, novo_representante,
\* status_representante) as submitted
RepInputs ==
    {<<Str(Txt7), None, None, None>>,
     <<None, Str(Txt7Ana), None, None>>,
     <<None, None, Str(Txt_ana), None>>,
     <<None, None, Str(Txt_ana), Str(<<"n", "o", "v", "o">>)>>}

\* (ano, colecao) as submitted: left to the configuration, or explicit
PeriodInputs ==
    {<<None, None>>, <<Str(<<"2", "0", "2", "5">>), Str(Lower(INVERNO))>>}

MetaInputs == {Str(<<"1", "0", "0">>), Str(<<"R", "$", " ", "2", ",", "5">>)}

MetaForm(i, r, p, m) ==
    [meta_id |-> i, representante_id |-> r[1], representante |-> r[2],
     novo_representante |-> r[3], status_representante |-> r[4],
     ano |-> p[1], colecao |-> p[2], meta |-> m]

GoalIdInputs(maxId) == {None} \cup {Str(IntStr(n)) : n \in 1..maxId}

\* forms that break one rule, or several at once
InvalidMetaForms ==
    LET rep == <<Str(Txt7), None, None, None>>
        norep == <<None, None, None, None>>
        ok == Str(<<"1", "0", "0">>)
    IN  {MetaForm(None, norep, <<None, None>>, ok),
         MetaForm(None, rep, <<None, Str(OUTONO)>>, ok),
         MetaForm(None, rep, <<None, None>>, Str(<<"-", "1">>)),
         MetaForm(None, rep, <<None, None>>, Str(TxtAbc)),
         MetaForm(None, rep, <<None, None>>, None),
         MetaForm(None, norep, <<None, Str(OUTONO)>>, Str(<<"-", "1">>)),
         MetaForm(None, rep, <<Str(TxtAbc), None>>, ok),
         MetaForm(None, norep, <<Str(TxtAbc), Str(OUTONO)>>, Str(<<"-", "1">>)),
         MetaForm(Str(<<"x">>), rep, <<None, None>>, ok)}

IdsWithin(items, maxId) == \A i \in 1..Len(items) : items[i].id <= maxId

\* no request is being served
Idle == req.handler = ""

\* the request's end: what it saved is on disk, else the store as synced
Finish(loaded, out) ==
    /\ disk' = IF out.saved THEN out.store ELSE loaded
    /\ req' = out.locals
    /\ resp' = out.resp
    /\ UNCHANGED <<report, call, ret, workers, minted>>

\* the handler returns its page: its locals are gone
Respond ==
    /\ ~Idle
    /\ req' = NoLocals
    /\ resp' = Info
    /\ UNCHANGED <<disk, report, call, ret, workers, minted>>

\* the store a handler starts from: loaded, and synced with the report
Loaded == {sync_representantes(disk, report)}

\* POST /admin: the export directory is purged and the new file stored
AdminUpload ==
    \E rows \in ReportInputs :
        /\ report' = rows
        /\ req' = [NoLocals EXCEPT !.handler = "admin"]
        /\ resp' = Success
        /\ UNCHANGED <<disk, call, ret, workers, minted>>

\* GET /: the dashboard loads the report and syncs the representatives
Dashboard ==
    \E loaded \in Loaded :
        Finish(loaded,
               Outcome(loaded, FALSE, [NoLocals EXCEPT !.handler = "dashboard"],
                       Info))

MetasSaveStep(form, maxId) ==
    \E loaded \in Loaded :
        \E out \in {admin_metas_save(loaded, form)} :
            /\ IdsWithin(out.store.metas_atuais, maxId)
            /\ Finish(loaded, out)

AdminMetasSave(maxId) ==
    \E i \in GoalIdInputs(maxId), r \in RepInputs, p \in PeriodInputs,
       m \in MetaInputs :
        MetasSaveStep(MetaForm(i, r, p, m), maxId)

AdminMetasSaveInvalid(maxId) ==
    \E form \in InvalidMetaForms : MetasSaveStep(form, maxId)

AdminMetasDelete(maxId) ==
    \E i \in IdInputs(maxId), loaded \in Loaded :
        \E out \in {admin_metas_delete(loaded, [meta_id |-> i])} :
            Finish(loaded, out)

\* no function is under call while the handlers are exercised
NoCall == [fn |-> "", args |-> <<>>]
Pending == [k |-> "pending"]

\* no request is served by a thread of its own
NoWorkers == <<>>

\* no id was given yet
NoIds == [metas_atuais |-> {}, historico_metas |-> {}]

\* the store as load_data_store creates it, no export file, no request
StoreInit ==
    /\ disk = default_store
    /\ report = NoReport
    /\ req = NoLocals
    /\ resp = Info
    /\ workers = NoWorkers
    /\ minted = NoIds

Init ==
    /\ StoreInit
    /\ call = NoCall
    /\ ret = Pending

\* a request is served when none is being served
Next ==
    \/ Respond
    \/ Idle /\ AdminUpload
    \/ Idle /\ Dashboard
    \/ Idle /\ AdminMetasSave(MaxMetaId)
    \/ Idle /\ AdminMetasSaveInvalid(MaxMetaId)
    \/ Idle /\ AdminMetasDelete(MaxMetaId)

Spec == Init /\ [][Next]_vars

(***************************************************************************)
(* History and configuration requests.                                     *)
(***************************************************************************)
HistForm(i, r, a, c, m, z) ==
    [entry_id |-> i, representante_id |-> r, ano |-> a, colecao |-> c,
     meta |-> m, realizado |-> z]

HistRepInputs == {Str(Txt7), Str(Upper(Txt_ana))}
HistRealizadoInputs == {Str(<<"5", "0">>)}
Txt2023 == <<"2", "0", "2", "3">>

InvalidHistForms ==
    LET F(i, r, a, c, m, z) == HistForm(i, r, a, c, m, z)
        r == Str(Txt7)
        a == Str(Txt2023)
        c == Str(INVERNO)
        m == Str(<<"1", "0", "0">>)
        z == None
        neg == Str(<<"-", "1">>)
    IN  {F(None, None, a, c, m, z),
         F(None, r, None, c, m, z),
         F(None, r, Str(TxtAbc), c, m, z),
         F(None, r, a, Str(OUTONO), m, z),
         F(None, r, a, c, neg, z),
         F(None, r, a, c, Str(TxtAbc), z),
         F(None, r, a, c, m, neg),
         F(None, None, Str(TxtAbc), None, neg, neg),
         F(Str(<<"x">>), r, a, c, m, z)}

HistSaveStep(form, maxId) ==
    \E loaded \in Loaded :
        \E out \in {admin_historico_save(loaded, form)} :
            /\ IdsWithin(out.store.historico_metas, maxId)
            /\ Finish(loaded, out)

AdminHistoricoSave(maxId) ==
    \E i \in GoalIdInputs(maxId), r \in HistRepInputs, z \in HistRealizadoInputs :
        HistSaveStep(HistForm(i, r, Str(Txt2023), Str(Lower(INVERNO)),
                              Str(<<"1", "0", "0">>), z),
                     maxId)

AdminHistoricoSaveInvalid(maxId) ==
    \E form \in InvalidHistForms : HistSaveStep(form, maxId)

AdminHistoricoDelete(maxId) ==
    \E i \in IdInputs(maxId), loaded \in Loaded :
        \E out \in {admin_historico_delete(loaded, [entry_id |-> i])} :
            Finish(loaded, out)

ConfigForm(a, c, ad, cd) ==
    [ano_atual |-> a, colecao_atual |-> c, ano_atual_dazul |-> ad,
     colecao_atual_dazul |-> cd, ano_atual_saron |-> None,
     colecao_atual_saron |-> None]

Txt2025 == <<"2", "0", "2", "5">>

ConfigForms ==
    {ConfigForm(Str(Txt2025), Str(INVERNO), None, None),
     ConfigForm(Str(IntStr(NowYear)), Str(PRIMAVERA), Str(Txt2025), Str(VERAO))}

InvalidConfigForms ==
    {ConfigForm(None, Str(INVERNO), None, None),
     ConfigForm(Str(TxtAbc), Str(INVERNO), None, None),
     ConfigForm(Str(Txt2025), None, None, None),
     ConfigForm(Str(Txt2025), Str(Lower(INVERNO)), None, None),
     ConfigForm(Str(TxtAbc), Str(OUTONO), Str(Txt2025), Str(VERAO))}

\* admin_config loads the store and no report: nothing is synced
ConfigStep(form) ==
    \E out \in {admin_config_post(disk, form)} : Finish(disk, out)

AdminConfigSave == \E form \in ConfigForms : ConfigStep(form)
AdminConfigInvalid == \E form \in InvalidConfigForms : ConfigStep(form)

NextHist ==
    \/ Respond
    \/ Idle /\ AdminUpload
    \/ Idle /\ Dashboard
    \/ Idle /\ AdminHistoricoSave(MaxHistId)
    \/ Idle /\ AdminHistoricoSaveInvalid(MaxHistId)
    \/ Idle /\ AdminHistoricoDelete(MaxHistId)

SpecHist == Init /\ [][NextHist]_vars

NextAll ==
    \/ Respond
    \/ Idle /\ AdminUpload
    \/ Idle /\ Dashboard
    \/ Idle /\ AdminMetasSave(SmallListId)
    \/ Idle /\ AdminMetasSaveInvalid(SmallListId)
    \/ Idle /\ AdminMetasDelete(SmallListId)
    \/ Idle /\ AdminHistoricoSave(SmallListId)
    \/ Idle /\ AdminHistoricoSaveInvalid(SmallListId)
    \/ Idle /\ AdminHistoricoDelete(SmallListId)
    \/ Idle /\ AdminConfigSave
    \/ Idle /\ AdminConfigInvalid

SpecAll == Init /\ [][NextAll]_vars

(***************************************************************************)
(* Claims on the goal store.                                               *)
(***************************************************************************)
KeyOf(item) == <<item.representante_id, item.ano, item.colecao>>
EntriesFor(metas, key) == {i \in 1..Len(metas) : KeyOf(metas[i]) = key}
HistoryOf(historicos, rep_id) ==
    {i \in 1..Len(historicos) : historicos[i].representante_id = rep_id}

\* the key and the entry the first of two saves wrote, and what the second
\* left of them
SecondSaveKeepsOneEntry(first, second) ==
    LET key == <<first.locals.rep_id, first.locals.ano.m, first.locals.colecao>>
        written == first.store.metas_atuais[
                       CHOOSE i \in EntriesFor(first.store.metas_atuais, key) :
                           \A j \in EntriesFor(first.store.metas_atuais, key) :
                               i <= j]
        left == EntriesFor(second.store.metas_atuais, key)
    IN  /\ Cardinality(left) = 1
        /\ \A i \in left :
              /\ second.store.metas_atuais[i].meta = second.locals.meta_valor
              /\ second.store.metas_atuais[i].id = written.id

\* C1: from any store state, saving a goal twice without a goal id for the
\* same (representative_id, year, collection) leaves exactly one entry for
\* that key in metas_atuais, with the second value and the id the first
\* save gave it.
C1_SaveTwiceLeavesOneEntry ==
    Idle =>
        \A r \in RepInputs, p \in PeriodInputs, m1 \in MetaInputs, m2 \in MetaInputs :
            LET first == admin_metas_save(sync_representantes(disk, report),
                                          MetaForm(None, r, p, m1))
                second == admin_metas_save(
                              sync_representantes(first.store, report),
                              MetaForm(None, r, p, m2))
            IN  (first.saved /\ second.saved
                    /\ IdsWithin(first.store.metas_atuais, MaxMetaId))
                    => SecondSaveKeepsOneEntry(first, second)

\* C2: metas_atuais holds at most one entry for each
\* (representative_id, year, collection).
C2_OneGoalPerKey ==
    \A i, j \in 1..Len(disk.metas_atuais) :
        i # j => KeyOf(disk.metas_atuais[i]) # KeyOf(disk.metas_atuais[j])

\* C3: no representative has more than 3 entries in historico_metas.
C3_HistoryCap ==
    \A i \in 1..Len(disk.historico_metas) :
        Cardinality(HistoryOf(disk.historico_metas,
                              disk.historico_metas[i].representante_id))
            <= HISTORY_LIMIT

\* a save request whose year is no number: the goal handler holds the
\* number it converted, the history and config handlers the text they read
YearIsNumber(ano) ==
    \/ ano.k = "int"
    \/ ano.k = "str" /\ IsDigitText(ano.s)

BadGoalValue(value) == value.k = "none" \/ (IsNum(value) /\ value.m < 0)

GoalSaveRequest(r) == r.handler = "admin_metas" /\ r.action = "save"
HistorySaveRequest(r) == r.handler = "admin_historico" /\ r.action = "add"
ConfigRequest(r) == r.handler = "admin_config"

\* the request breaks a validation rule: blank representative, invalid year,
\* collection outside COLLECTION_OPTIONS, negative or unparseable goal value
FailsValidation(r) ==
    \/ /\ GoalSaveRequest(r) \/ HistorySaveRequest(r)
       /\ \/ r.rep_id = <<>>
          \/ ~YearIsNumber(r.ano)
          \/ r.colecao \notin COLLECTION_OPTIONS
          \/ BadGoalValue(r.meta_valor)
    \/ /\ HistorySaveRequest(r)
       /\ IsNum(r.realizado_valor) /\ r.realizado_valor.m < 0
    \/ /\ ConfigRequest(r)
       /\ ~YearIsNumber(r.ano) \/ r.colecao \notin COLLECTION_OPTIONS

\* the request names no entry of the history: it carries no entry id or
\* the number of no entry
NamesNoEntry(r, historicos) ==
    \/ r.id.k = "none"
    \/ r.id.k = "int" /\ \A i \in 1..Len(historicos) : historicos[i].id # r.id.m

\* C4: a history add with valid fields that names no existing entry, for a
\* representative who already has 3 entries, is rejected with a validation
\* message, and historico_metas is left as it was (the representative still
\* has 3 entries).
C4_FourthAddRejected ==
    [][(/\ Idle
        /\ HistorySaveRequest(req')
        /\ ~FailsValidation(req')
        /\ NamesNoEntry(req', disk.historico_metas)
        /\ Cardinality(HistoryOf(disk.historico_metas, req'.rep_id)) = HISTORY_LIMIT)
       => (/\ resp'.message_type = "error"
           /\ resp'.fault = ""
           /\ resp'.errors # <<>>
           /\ disk'.historico_metas = disk.historico_metas
           /\ Cardinality(HistoryOf(disk'.historico_metas, req'.rep_id))
                  = HISTORY_LIMIT)]_vars

\* the fourth add has been answered: the request is a valid add naming no
\* entry, its representative has 3 entries, and the answer is the cap's
C4_Witness ==
    /\ HistorySaveRequest(req)
    /\ ~FailsValidation(req)
    /\ NamesNoEntry(req, disk.historico_metas)
    /\ Cardinality(HistoryOf(disk.historico_metas, req.rep_id)) = HISTORY_LIMIT
    /\ resp = Failure(<<"Cada representante pode ter ate 3 colecoes no historico.">>)

\* C5: a goal save, a history save or a config update that fails a
\* validation leaves representantes, metas_atuais, historico_metas and
\* config of the persisted store as they were before the request, when the
\* loaded report brings no new representative.
C5_RejectedLeavesStore ==
    [][(/\ Idle
        /\ FailsValidation(req')
        /\ sync_representantes(disk, report) = disk)
       => (/\ disk'.representantes = disk.representantes
           /\ disk'.metas_atuais = disk.metas_atuais
           /\ disk'.historico_metas = disk.historico_metas
           /\ disk'.config = disk.config)]_vars

\* a goal save with a negative value has been refused on a store that
\* holds a goal, a history entry and a representative
C5_Witness ==
    /\ GoalSaveRequest(req)
    /\ req.rep_id # <<>>
    /\ IsNum(req.meta_valor) /\ req.meta_valor.m < 0
    /\ resp.message_type = "error"
    /\ disk.metas_atuais # <<>>
    /\ disk.historico_metas # <<>>
    /\ disk.representantes # {}

\* C6: a goal save or a history save whose year is not a number is answered
\* with a collected validation message; the request never ends in an
\* unhandled fault.
C6_InvalidYearIsMessage ==
    ((GoalSaveRequest(req) \/ HistorySaveRequest(req)) /\ ~YearIsNumber(req.ano))
        => (resp.fault = "" /\ resp.message_type = "error" /\ resp.errors # <<>>)

(***************************************************************************)
(* The identity resolver under call.                                       *)
(***************************************************************************)
MaxCodeLen == 3

TxtMaria == <<"M", "a", "r", "i", "a">>
Txt007 == <<"0", "0", "7">>

\* every text of at most n characters
RECURSIVE TextsUpTo(_, _)
TextsUpTo(chars, n) ==
    IF n = 0 THEN {<<>>}
    ELSE LET shorter == TextsUpTo(chars, n - 1)
         IN  shorter \cup {Append(t, c) : t \in shorter, c \in chars}

\* CODIGO cells: a missing cell, a number read from a numeric column, a text
CodeInputs ==
    {None, NaN, PyInt(0), PyInt(7), PyFloat(0, 0), Str(Txt007),
     Str(<<" ">> \o Txt007 \o <<" ">>)}
        \cup {Str(t) : t \in TextsUpTo({" ", "n", "a", "N", "7"}, MaxCodeLen)}

NameInputs ==
    {None, Str(<<>>), Str(TxtMaria), Str(<<" ">> \o TxtMaria \o <<" ">>),
     Str(<<"x">>)}

\* the store is at rest while a function is under call
StoreIdle == StoreInit

IdentInit ==
    /\ StoreIdle
    /\ call \in {[fn |-> "normalize_identifier", args |-> <<code, name>>] :
                    code \in CodeInputs, name \in NameInputs}
    /\ ret = Pending

CallNormalizeIdentifier ==
    /\ call.fn = "normalize_identifier"
    /\ ret = Pending
    /\ ret' = Str(normalize_identifier(call.args[1], call.args[2]))
    /\ UNCHANGED <<disk, report, req, resp, call, workers, minted>>

SpecIdent == IdentInit /\ [][CallNormalizeIdentifier]_vars

Returned(fn) == call.fn = fn /\ ret # Pending

\* the rule as stated: the trimmed code when the code is present, not empty
\* after trimming and not "nan" in any case; else the trimmed name in
\* upper case
ResolvedIdentifier(code, name) ==
    LET trimmed == Strip(PyStr(code))
    IN  IF code.k # "none" /\ trimmed # <<>> /\ Lower(trimmed) # <<"n", "a", "n">>
        THEN trimmed
        ELSE Upper(Strip(IF name.k = "none" THEN <<>> ELSE PyStr(name)))

\* C8: normalize_identifier(code, name) returns the trimmed code when the
\* code is present, non-empty after trimming and not "nan" in any case, and
\* the trimmed upper-case name in every other case; ("", "Maria") and
\* ("nan", "Maria") give "MARIA", ("007", "Maria") gives "007".
C8_IdentifierRule ==
    Returned("normalize_identifier") =>
        /\ ret = Str(ResolvedIdentifier(call.args[1], call.args[2]))
        /\ call.args = <<Str(<<>>), Str(TxtMaria)>> => ret = Str(Upper(TxtMaria))
        /\ call.args = <<Str(<<"n", "a", "n">>), Str(TxtMaria)>>
               => ret = Str(Upper(TxtMaria))
        /\ call.args = <<Str(Txt007), Str(TxtMaria)>> => ret = Str(Txt007)

\* the rule and its three examples hold for every code that is a text or
\* missing
TextCodesFollowRule ==
    (Returned("normalize_identifier") /\ call.args[1].k \in {"str", "none", "nan"})
        => C8_IdentifierRule

(***************************************************************************)
(* The report pipeline under call: load_report on an order-level export    *)
(* of four columns (representative code, name, a third column, value).     *)
(***************************************************************************)
MaxRows == 2

TxtBia == <<"B", "i", "a">>
OBS == <<"O", "B", "S">>

\* the label of the third column: an order identifier, a client, a column
\* the pipeline does not know, or a total that marks the table aggregated
ThirdLabels == {<<" ">> \o Lower(DOCUMENTO), NUM_OS, CLIENTE, OBS, PEDIDOS}

ReportLabels(third) == <<Lower(CODIGO), NOME_VENDEDOR, third, <<" ">> \o VALOR \o <<" ">> >>

\* values as the export writes them, pt-BR
ValueInputs ==
    {<<"1", ".", "0", "0", "0", ",", "0", "0">>, <<"5", "0", "0", ",", "5", "0">>,
     <<"5", "0", "0">>}

RowInputs ==
    {<<Str(rep[1]), Str(rep[2]), Str(third), Str(value)>> :
        rep \in {<<<<"1">>, TxtAna>>, <<<<"2">>, TxtBia>>},
        third \in {<<"A">>, <<"B">>},
        value \in ValueInputs}

\* every tuple of 1..n rows
RECURSIVE RowsUpTo(_)
RowsUpTo(n) ==
    IF n = 0 THEN {<<>>}
    ELSE LET shorter == RowsUpTo(n - 1)
         IN  shorter \cup {Append(rows, row) : rows \in shorter, row \in RowInputs}

ExportInputs ==
    {DataFrame(ReportLabels(third), rows) :
        third \in ThirdLabels, rows \in RowsUpTo(MaxRows) \ {<<>>}}

ReportInit ==
    /\ StoreIdle
    /\ call \in {[fn |-> "load_report", args |-> <<df>>] : df \in ExportInputs}
    /\ ret = Pending

CallLoadReport ==
    /\ call.fn = "load_report"
    /\ ret = Pending
    /\ ret' = load_report(call.args[1])
    /\ UNCHANGED <<disk, report, req, resp, call, workers, minted>>

SpecReport == ReportInit /\ [][CallLoadReport]_vars

\* what the export says of one representative: its rows, its distinct
\* order identifiers, the sum of its values read in pt-BR
ExportRows(df, code, name) ==
    {r \in 1..Len(df.rows) : df.rows[r][1] = code /\ df.rows[r][2] = name}

RECURSIVE LocaleSum(_, _)
LocaleSum(df, rows) ==
    IF rows = {} THEN PyFloat(0, 0)
    ELSE LET r == CHOOSE x \in rows : TRUE
         IN  NumAdd(LocaleSum(df, rows \ {r}), parse_ptbr_number(df.rows[r][4]))

OrderLabels == {CODIGO_PEDIDO, NUM_OS, DOCUMENTO}
ThirdLabel(df) == Upper(Strip(df.columns[3]))
IsAggregated(df) == ThirdLabel(df) \in {PEDIDOS, TOTAL_PEDIDOS, TOTAL_CLIENTES, CLIENTES}

\* the rows of the result that carry the representative
ResultRows(df, code, name) ==
    {g \in 1..Len(df.rows) : /\ RowGet(df, g, CODIGO) = code
                             /\ RowGet(df, g, NOME_VENDEDOR) = name}

TheExample ==
    DataFrame(ReportLabels(<<" ">> \o Lower(DOCUMENTO)),
              << <<Str(<<"1">>), Str(TxtAna), Str(<<"A">>),
                   Str(<<"1", ".", "0", "0", "0", ",", "0", "0">>)>>,
                 <<Str(<<"1">>), Str(TxtAna), Str(<<"B">>),
                   Str(<<"5", "0", "0", ",", "5", "0">>)>> >>)

\* C9: for an order-level export with an order identifier column and no
\* aggregated totals, load_report returns one row for each representative,
\* whose TOTAL_PEDIDOS is the number of its distinct order identifiers and
\* whose VLR_LIQUIDO is the sum of its values read in pt-BR; the two rows of
\* "1"/"Ana" with orders A and B and values "1.000,00" and "500,50" give one
\* row with TOTAL_PEDIDOS = 2 and VLR_LIQUIDO = 1500.50.
C9_AggregatedPerRepresentative ==
    (Returned("load_report") /\ ThirdLabel(call.args[1]) \in OrderLabels) =>
        LET df == call.args[1]
        IN  /\ \A r \in 1..Len(df.rows) :
                 LET rows == ExportRows(df, df.rows[r][1], df.rows[r][2])
                     found == ResultRows(ret, df.rows[r][1], df.rows[r][2])
                 IN  /\ Cardinality(found) = 1
                     /\ \A g \in found :
                          /\ RowGet(ret, g, TOTAL_PEDIDOS)
                               = PyInt(Cardinality({df.rows[x][3] : x \in rows}))
                          /\ IsNum(RowGet(ret, g, VLR_LIQUIDO))
                          /\ NumEq(RowGet(ret, g, VLR_LIQUIDO), LocaleSum(df, rows))
            /\ df = TheExample =>
                 /\ Len(ret.rows) = 1
                 /\ RowGet(ret, 1, TOTAL_PEDIDOS) = PyInt(2)
                 /\ NumEq(RowGet(ret, 1, VLR_LIQUIDO), PyFloat(15005, 1))

\* C10: for an order-level export with no order identifier column (none of
\* CODIGO_PEDIDO, NUM_OS, DOCUMENTO) the row index stands for the order, so
\* that each representative's TOTAL_PEDIDOS is the number of its rows.
C10_RowIndexFallback ==
    (/\ Returned("load_report")
     /\ ThirdLabel(call.args[1]) \notin OrderLabels
     /\ ~IsAggregated(call.args[1])) =>
        LET df == call.args[1]
        IN  \A r \in 1..Len(df.rows) :
                LET rows == ExportRows(df, df.rows[r][1], df.rows[r][2])
                    found == ResultRows(ret, df.rows[r][1], df.rows[r][2])
                IN  /\ found # {}
                    /\ \A g \in found :
                          RowGet(ret, g, TOTAL_PEDIDOS) = PyInt(Cardinality(rows))

(***************************************************************************)
(* Attainment: build_metas_map, build_vendedores and the goal figures of   *)
(* build_summary.  Float arithmetic carries NaN.                           *)
(***************************************************************************)
FAdd(a, b) == IF IsNum(a) /\ IsNum(b) THEN ToFloat(NumAdd(a, b)) ELSE NaN
FSub(a, b) == FAdd(a, IF IsNum(b) THEN [b EXCEPT !.m = 0 - b.m] ELSE b)
FDiv(a, b) == IF IsNum(a) /\ IsNum(b) THEN Div(a, b) ELSE NaN
\* a >= b, a > b: false when either is NaN
FGeq(a, b) == IsNum(a) /\ IsNum(b) /\ ~NumLess(a, b)
FGreater(a, b) == IsNum(a) /\ IsNum(b) /\ NumLess(b, a)
FLeq(a, b) == FGeq(b, a)
\* max(a, b): b when b > a, else a
FMax(a, b) == IF FGreater(b, a) THEN b ELSE a

ZERO == PyFloat(0, 0)
ONE == PyInt(1)
EIGHT_TENTHS == PyFloat(8, 1)

\* rep_id -> goal entry, a later entry of the list replacing an earlier one
RECURSIVE MetasMap(_, _, _, _)
MetasMap(metas, ano, colecao, metas_map) ==
    IF metas = <<>> THEN metas_map
    ELSE LET meta == Head(metas)
         IN  MetasMap(Tail(metas), ano, colecao,
                      IF /\ meta.ano = ano
                         /\ Upper(meta.colecao) = colecao
                         /\ meta.representante_id # <<>>
                      THEN Put(metas_map, meta.representante_id, meta)
                      ELSE metas_map)

build_metas_map(store, ano, colecao) == MetasMap(store.metas_atuais, ano, colecao, <<>>)

\* metas_map.get(rep_id, {}).get("meta")
MetaOf(metas_map, rep_id) ==
    IF rep_id \in DOMAIN metas_map THEN metas_map[rep_id].meta ELSE None

\* safe_value(value, default)
safe_value(value, default) == IF IsNull(value) THEN default ELSE value

\* the status of a representative who has a goal
VendedorStatusStrict(percentual_meta) ==
    IF FGeq(percentual_meta, ONE) THEN "status-good"
    ELSE IF FGreater(percentual_meta, EIGHT_TENTHS) THEN "status-warning"
    ELSE "status-alert"

VendedorStatus(percentual_meta) ==
    IF FGeq(percentual_meta, ONE) THEN "status-good"
    ELSE IF FGeq(percentual_meta, EIGHT_TENTHS) THEN "status-warning"
    ELSE "status-alert"

\* df.sort_values("VLR_LIQUIDO", ascending=False): the row numbers, null
\* values last, equal values in their order
RECURSIVE SortedDescending(_, _)
SortedDescending(cells, rows) ==
    IF rows = {} THEN <<>>
    ELSE LET Before(a, b) ==
                 \/ ~IsNull(cells[a]) /\ IsNull(cells[b])
                 \/ IsNull(cells[a]) = IsNull(cells[b])
                      /\ (IF IsNull(cells[a]) THEN a < b
                          ELSE \/ NumLess(cells[b], cells[a])
                               \/ NumEq(cells[a], cells[b]) /\ a < b)
             first == CHOOSE a \in rows : \A b \in rows \ {a} : Before(a, b)
         IN  <<first>> \o SortedDescending(cells, rows \ {first})

\* df.sort_values("VLR_LIQUIDO") on a table without the column
VendedoresKeyError(df) == VLR_LIQUIDO \notin Labels(df)

build_vendedores(df, metas_map) ==
    IF VendedoresKeyError(df) THEN Raised("KeyError") ELSE
    LET order == SortedDescending(ColumnOf(df, VLR_LIQUIDO), 1..Len(df.rows))
        Vendedor(r) ==
            LET nome == IF NOME_VENDEDOR \in Labels(df)
                        THEN RowGet(df, r, NOME_VENDEDOR) ELSE Str(DASH)
                rep_id == normalize_identifier(RowGet(df, r, CODIGO), nome)
                valor_meta == safe_value(MetaOf(metas_map, rep_id), ZERO)
                vlr_liquido == safe_value(RowGet(df, r, VLR_LIQUIDO), ZERO)
                has_meta == Truthy(valor_meta) /\ FGreater(valor_meta, ZERO)
                percentual_meta == FDiv(vlr_liquido, valor_meta)
            IN  [codigo |-> RowGet(df, r, CODIGO),
                 nome |-> nome,
                 identificador |-> rep_id,
                 qtde_item |-> safe_value(RowGet(df, r, QTDEITEM), PyInt(0)),
                 total_pedidos |-> safe_value(RowGet(df, r, TOTAL_PEDIDOS), PyInt(0)),
                 total_clientes |-> safe_value(RowGet(df, r, TOTAL_CLIENTES), PyInt(0)),
                 clientes_ativos |-> safe_value(RowGet(df, r, CLIENTES_ATIVOS), PyInt(0)),
                 qtde_media |-> safe_value(RowGet(df, r, QTDE_MEDIA), PyInt(0)),
                 vlr_liquido |-> vlr_liquido,
                 preco_medio |-> safe_value(RowGet(df, r, PRECO_MEDIO), PyInt(0)),
                 media_pedidos |-> safe_value(RowGet(df, r, MEDIA_PEDIDOS), PyInt(0)),
                 clientes_novos |-> safe_value(RowGet(df, r, CLIENTES_NOVOS), PyInt(0)),
                 valor_meta |-> valor_meta,
                 percentual_meta |-> IF has_meta THEN percentual_meta ELSE None,
                 gap_meta |-> IF has_meta THEN FSub(valor_meta, vlr_liquido) ELSE None,
                 meta_status_class |-> IF has_meta THEN VendedorStatus(percentual_meta)
                                       ELSE "status-neutral"]
    IN  [i \in 1..Len(order) |-> Vendedor(order[i])]

\* the loop of build_summary over the rows: the goal totals and counters
RECURSIVE SummaryRows(_, _, _, _)
SummaryRows(df, metas_map, r, totals) ==
    IF r > Len(df.rows) THEN totals
    ELSE LET rep_id == normalize_identifier(RowGet(df, r, CODIGO),
                                            RowGet(df, r, NOME_VENDEDOR))
             meta_valor == MetaOf(metas_map, rep_id)
             cell == RowGet(df, r, VLR_LIQUIDO)
             vlr_liquido == IF Truthy(cell) THEN ToFloat(cell) ELSE ZERO
         IN  SummaryRows(df, metas_map, r + 1,
               IF Truthy(meta_valor) /\ FGreater(meta_valor, ZERO)
               THEN [totals EXCEPT
                       !.vendedores_com_meta = @ + 1,
                       !.total_meta = FAdd(@, meta_valor),
                       !.total_vendas_com_meta = FAdd(@, vlr_liquido),
                       !.gap_total = FAdd(@, FMax(FSub(meta_valor, vlr_liquido), ZERO)),
                       !.vendedores_acima_meta =
                           IF FGeq(FDiv(vlr_liquido, meta_valor), ONE) THEN @ + 1 ELSE @,
                       !.vendedores_abaixo_meta =
                           IF FGeq(FDiv(vlr_liquido, meta_valor), ONE) THEN @ ELSE @ + 1]
               ELSE [totals EXCEPT !.vendedores_sem_meta = @ + 1])

\* the status of the whole report, neutral only below a goal total of 0
SummaryStatusBelowZero(total_meta, percentual_meta) ==
    IF FGreater(ZERO, total_meta) THEN "status-neutral"
    ELSE IF FGeq(percentual_meta, ONE) THEN "status-good"
    ELSE IF FGeq(percentual_meta, EIGHT_TENTHS) THEN "status-warning"
    ELSE "status-alert"

\* the status of the whole report
SummaryStatus(total_meta, percentual_meta) ==
    IF FLeq(total_meta, ZERO) THEN "status-neutral"
    ELSE IF FGeq(percentual_meta, ONE) THEN "status-good"
    ELSE IF FGeq(percentual_meta, EIGHT_TENTHS) THEN "status-warning"
    ELSE "status-alert"

\* int(value), value a number
IntTrunc(value) ==
    PyInt(IF value.m >= 0 THEN value.m \div Pow10(value.e)
          ELSE 0 - ((0 - value.m) \div Pow10(value.e)))

\* df[label].sum()
ColumnSum(df, label) == SumCells(ColumnOf(df, label), 1..Len(df.rows))

\* int(df[label].sum()) if label in df.columns else 0
IntTotal(df, label) ==
    IF label \in Labels(df) THEN IntTrunc(ColumnSum(df, label)) ELSE PyInt(0)

\* items[:n]
Take(items, n) == SubSeq(items, 1, IF Len(items) < n THEN Len(items) ELSE n)

RANKING_SIZE == 5

\* df.sort_values("VLR_LIQUIDO", ascending=False).head(n)
\*   [["NOME_VENDEDOR", "VLR_LIQUIDO"]].to_dict(orient="records")
TopVendas(df, n) ==
    LET order == Take(SortedDescending(ColumnOf(df, VLR_LIQUIDO), 1..Len(df.rows)), n)
    IN  [i \in 1..Len(order) |->
            [NOME_VENDEDOR |-> RowGet(df, order[i], NOME_VENDEDOR),
             VLR_LIQUIDO |-> RowGet(df, order[i], VLR_LIQUIDO)]]

\* the representative with most new clients, null cells counting 0
TopClientesNovos(df) ==
    IF CLIENTES_NOVOS \notin Labels(df) \/ df.rows = <<>>
    THEN [nome |-> Str(DASH), clientes_novos |-> PyInt(0)]
    ELSE LET cells == ColumnOf(df, CLIENTES_NOVOS)
             Filled(r) == IF IsNull(cells[r]) THEN ZERO ELSE cells[r]
             idx_top == CHOOSE r \in 1..Len(cells) :
                           /\ \A x \in 1..Len(cells) : NumLeq(Filled(x), Filled(r))
                           /\ \A x \in 1..(r - 1) : NumLess(Filled(x), Filled(r))
         IN  [nome |-> IF NOME_VENDEDOR \in Labels(df)
                       THEN RowGet(df, idx_top, NOME_VENDEDOR) ELSE Str(DASH),
              clientes_novos |-> IntTrunc(Filled(idx_top))]

\* the sort by VLR_LIQUIDO for vendedor_destaque, and the selection of
\* [["NOME_VENDEDOR", "VLR_LIQUIDO"]], on a table without the column
SummaryKeyError(df) == VLR_LIQUIDO \notin Labels(df) \/ NOME_VENDEDOR \notin Labels(df)

build_summary(df, metas_map) ==
    IF SummaryKeyError(df) THEN Raised("KeyError") ELSE
    LET totals == SummaryRows(df, metas_map, 1,
                    [total_meta |-> ZERO, total_vendas_com_meta |-> ZERO,
                     gap_total |-> ZERO, vendedores_com_meta |-> 0,
                     vendedores_acima_meta |-> 0, vendedores_sem_meta |-> 0,
                     vendedores_abaixo_meta |-> 0])
        percentual_meta == IF Truthy(totals.total_meta)
                           THEN FDiv(totals.total_vendas_com_meta, totals.total_meta)
                           ELSE ZERO
        meta_gap == FSub(totals.total_meta, totals.total_vendas_com_meta)
        destaque == TopVendas(df, 1)
    IN  [total_vendedores |-> Len(df.rows),
         total_itens |-> IntTotal(df, QTDEITEM),
         total_vendas |-> ToFloat(ColumnSum(df, VLR_LIQUIDO)),
         total_pedidos |-> IntTotal(df, TOTAL_PEDIDOS),
         total_clientes |-> IntTotal(df, TOTAL_CLIENTES),
         clientes_ativos |-> IntTotal(df, CLIENTES_ATIVOS),
         clientes_novos |-> IntTotal(df, CLIENTES_NOVOS),
         ranking_vendas |-> TopVendas(df, RANKING_SIZE),
         vendedor_destaque |-> IF destaque # <<>> THEN destaque[1]
                               ELSE [NOME_VENDEDOR |-> Str(DASH), VLR_LIQUIDO |-> ZERO],
         vendedores_sem_clientes_ativos |->
             IF CLIENTES_ATIVOS \in Labels(df)
             THEN Cardinality({r \in 1..Len(df.rows) :
                                 \/ IsNull(RowGet(df, r, CLIENTES_ATIVOS))
                                 \/ NumLeq(RowGet(df, r, CLIENTES_ATIVOS), ZERO)})
             ELSE 0,
         top_clientes_novos |-> TopClientesNovos(df),
         total_meta |-> totals.total_meta,
         percentual_meta |-> percentual_meta,
         meta_status_class |-> SummaryStatus(totals.total_meta, percentual_meta),
         valor_faltante |-> FMax(meta_gap, ZERO),
         gap_total |-> totals.gap_total,
         vendedores_com_meta |-> totals.vendedores_com_meta,
         vendedores_acima_meta |-> totals.vendedores_acima_meta,
         vendedores_abaixo_meta |-> totals.vendedores_abaixo_meta,
         vendedores_sem_meta |-> totals.vendedores_sem_meta]

\* a / max(b, 1)
PerAtLeastOne(a, b) == FDiv(ToFloat(a), FMax(b, ONE))

INSIGHT_KEYS ==
    {"ticket_medio", "media_itens_por_pedido", "taxa_clientes_ativos",
     "media_pedidos_por_cliente", "clientes_por_vendedor",
     "media_venda_por_vendedor", "ticket_medio_cliente"}

\* a denominator or numerator column read without a test of its presence
InsightsKeyError(df) ==
    LET Has(label) == label \in Labels(df)
    IN  \/ Has(VLR_LIQUIDO) /\ ~Has(TOTAL_PEDIDOS)
        \/ Has(QTDEITEM) /\ ~Has(TOTAL_PEDIDOS)
        \/ Has(CLIENTES_ATIVOS) /\ ~Has(TOTAL_CLIENTES)
        \/ Has(TOTAL_CLIENTES) /\ ~Has(VLR_LIQUIDO)

build_insights(df) ==
    LET Has(label) == label \in Labels(df)
        Sum(label) == ColumnSum(df, label)
        size == PyInt(Len(df.rows))
        Insight(key) ==
            CASE key = "ticket_medio" /\ Has(VLR_LIQUIDO) ->
                   PerAtLeastOne(Sum(VLR_LIQUIDO), Sum(TOTAL_PEDIDOS))
              [] key = "media_venda_por_vendedor" /\ Has(VLR_LIQUIDO) ->
                   PerAtLeastOne(Sum(VLR_LIQUIDO), size)
              [] key = "media_itens_por_pedido" /\ Has(QTDEITEM) ->
                   PerAtLeastOne(Sum(QTDEITEM), Sum(TOTAL_PEDIDOS))
              [] key = "taxa_clientes_ativos" /\ Has(CLIENTES_ATIVOS) ->
                   PerAtLeastOne(Sum(CLIENTES_ATIVOS), Sum(TOTAL_CLIENTES))
              [] key = "media_pedidos_por_cliente"
                   /\ Has(TOTAL_PEDIDOS) /\ Has(TOTAL_CLIENTES) ->
                   PerAtLeastOne(Sum(TOTAL_PEDIDOS), Sum(TOTAL_CLIENTES))
              [] key = "clientes_por_vendedor" /\ Has(TOTAL_CLIENTES) ->
                   PerAtLeastOne(Sum(TOTAL_CLIENTES), size)
              [] key = "ticket_medio_cliente" /\ Has(TOTAL_CLIENTES) ->
                   PerAtLeastOne(Sum(VLR_LIQUIDO), Sum(TOTAL_CLIENTES))
              [] OTHER -> ZERO
    IN  IF InsightsKeyError(df) THEN Raised("KeyError")
        ELSE [key \in INSIGHT_KEYS |-> Insight(key)]

\* sorted(items, key=value, reverse=descending): the positions, equal values
\* in their order
RECURSIVE SortedPositions(_, _, _)
SortedPositions(values, positions, descending) ==
    IF positions = {} THEN <<>>
    ELSE LET Before(a, b) ==
                 \/ IF descending THEN NumLess(values[b], values[a])
                    ELSE NumLess(values[a], values[b])
                 \/ NumEq(values[a], values[b]) /\ a < b
             first == CHOOSE a \in positions : \A b \in positions \ {a} : Before(a, b)
         IN  <<first>> \o SortedPositions(values, positions \ {first}, descending)

\* the top and bottom five of the items that carry a value
RankingOf(vendedores, values) ==
    LET held == {i \in 1..Len(vendedores) : values[i] # None}
        Items(order) ==
            [i \in 1..Len(order) |->
                [nome |-> vendedores[order[i]].nome, valor |-> values[order[i]]]]
    IN  [top |-> Items(Take(SortedPositions(values, held, TRUE), RANKING_SIZE)),
         bottom |-> Items(Take(SortedPositions(values, held, FALSE), RANKING_SIZE))]

\* the rankings with the shortfall left as computed, negative when the net
\* value passes the goal
build_rankings_unclamped(vendedores) ==
    [valor |-> RankingOf(vendedores, [i \in 1..Len(vendedores) |->
                                         vendedores[i].vlr_liquido]),
     atingimento |-> RankingOf(vendedores, [i \in 1..Len(vendedores) |->
                                               vendedores[i].percentual_meta]),
     gap |-> RankingOf(vendedores, [i \in 1..Len(vendedores) |->
                                       vendedores[i].gap_meta])]

build_rankings(vendedores) ==
    [valor |-> RankingOf(vendedores, [i \in 1..Len(vendedores) |->
                                         vendedores[i].vlr_liquido]),
     atingimento |-> RankingOf(vendedores, [i \in 1..Len(vendedores) |->
                                               vendedores[i].percentual_meta]),
     gap |-> RankingOf(vendedores,
                       [i \in 1..Len(vendedores) |->
                           IF vendedores[i].gap_meta # None
                           THEN FMax(vendedores[i].gap_meta, PyInt(0)) ELSE None])]

\* what dashboard() hands to its page for a report and a store
dashboard_view(df, store) ==
    LET config == get_current_config(store)
        metas_map == build_metas_map(store, config.ano_atual, config.colecao_atual)
        summary == build_summary(df, metas_map)
        insights == build_insights(df)
        vendedores == build_vendedores(df, metas_map)
    IN  IF SummaryKeyError(df) \/ InsightsKeyError(df) \/ VendedoresKeyError(df)
        THEN Raised("KeyError")
        ELSE [k |-> "view",
              summary |-> summary,
              insights |-> insights,
              vendedores |-> vendedores,
              ranking_data |-> build_rankings(vendedores)]

(***************************************************************************)
(* The dashboard's view under call, for reports of one row for each        *)
(* representative "1", "2", ... and stores that hold their goals.          *)
(***************************************************************************)
MaxVendedores == 2

\* VLR_LIQUIDO cells: missing, 0, 79.99, 80, 99.99, 100, 150.5
NetInputs ==
    {NaN, ZERO, PyFloat(7999, 2), PyFloat(80, 0), PyFloat(9999, 2),
     PyFloat(100, 0), PyFloat(1505, 1)}

\* the goal of a representative: none saved, 0, 100
GoalInputs == {None, ZERO, PyFloat(100, 0)}

AttainReport(nets) ==
    DataFrame(<<CODIGO, NOME_VENDEDOR, VLR_LIQUIDO, TOTAL_PEDIDOS>>,
              [i \in 1..Len(nets) |->
                  <<Str(IntStr(i)), Str(TxtAna), nets[i], PyInt(1)>>])

\* the goals saved for the current period, and one of another collection
AttainStore(goals) ==
    [default_store EXCEPT !.metas_atuais =
        SelectSeq([i \in 1..Len(goals) |->
                      [id |-> i, representante_id |-> IntStr(i), ano |-> NowYear,
                       colecao |-> DEFAULT_COLLECTION, meta |-> goals[i]]],
                  LAMBDA meta : meta.meta # None)
        \o <<[id |-> Len(goals) + 1, representante_id |-> <<"1">>, ano |-> NowYear,
              colecao |-> INVERNO, meta |-> PyFloat(1, 0)]>>]

TuplesOf(values, n) == [1..n -> values]

\* the stores of n representatives: their goals, and the store as constructed
AttainStores(n) == {AttainStore(goals) : goals \in TuplesOf(GoalInputs, n)} \cup {default_store}

AttainInit ==
    /\ StoreIdle
    /\ call \in {[fn |-> "dashboard_view", args |-> <<AttainReport(nets), store>>] :
                    <<nets, store>> \in
                        UNION {TuplesOf(NetInputs, n) \X AttainStores(n) :
                                  n \in 1..MaxVendedores}}
    /\ ret = Pending

CallDashboardView ==
    /\ call.fn = "dashboard_view"
    /\ ret = Pending
    /\ ret' = dashboard_view(call.args[1], call.args[2])
    /\ UNCHANGED <<disk, report, req, resp, call, workers, minted>>

SpecAttain == AttainInit /\ [][CallDashboardView]_vars

\* n * value
Times(n, value) == [value EXCEPT !.m = n * value.m]

\* the tier of (net_value, goal_value) as stated, the ratio compared exactly:
\* net/goal >= 1 is net >= goal, net/goal >= 0.8 is 5 * net >= 4 * goal
AttainmentTier(net_value, goal_value) ==
    IF ~IsNum(goal_value) \/ ~NumLess(ZERO, goal_value) THEN "status-neutral"
    ELSE IF NumLeq(goal_value, net_value) THEN "status-good"
    ELSE IF NumLeq(Times(4, goal_value), Times(5, net_value)) THEN "status-warning"
    ELSE "status-alert"

\* the goal the store holds for a representative in the current period
SavedGoal(store, rep_id) ==
    LET held == {i \in 1..Len(store.metas_atuais) :
                    /\ store.metas_atuais[i].representante_id = rep_id
                    /\ store.metas_atuais[i].ano = NowYear
                    /\ store.metas_atuais[i].colecao = DEFAULT_COLLECTION}
    IN  IF held = {} THEN None
        ELSE store.metas_atuais[CHOOSE i \in held : TRUE].meta

GoalHolders(store, vendedores) ==
    {i \in 1..Len(vendedores) :
        AttainmentTier(vendedores[i].vlr_liquido,
                       SavedGoal(store, vendedores[i].identificador))
            # "status-neutral"}

\* C7: a representative's status is a function of (net_value, goal_value):
\* no goal or a goal <= 0 gives status-neutral with ratio and shortfall
\* null; else net/goal >= 1.0 gives status-good, a ratio in [0.8, 1.0)
\* status-warning and a ratio < 0.8 status-alert, the ratios 0.8 and 1.0
\* falling in the upper tier; and when exactly one representative of the
\* report holds a goal the summary's status is that representative's.
C7_AttainmentTiers ==
    Returned("dashboard_view") =>
        LET store == call.args[2]
            vendedores == ret.vendedores
            holders == GoalHolders(store, vendedores)
        IN  /\ Len(vendedores) = Len(call.args[1].rows)
            /\ \A i \in 1..Len(vendedores) :
                 LET v == vendedores[i]
                     tier == AttainmentTier(v.vlr_liquido,
                                            SavedGoal(store, v.identificador))
                 IN  /\ v.meta_status_class = tier
                     /\ (tier = "status-neutral")
                          <=> (v.percentual_meta = None /\ v.gap_meta = None)
            /\ Cardinality(holders) = 1 =>
                 \A i \in holders :
                     ret.summary.meta_status_class = vendedores[i].meta_status_class

\* the view of a report with one goal holder whose net value is exactly 0.8
\* of the goal, and a representative without a goal: both the holder and the
\* summary are in the warning tier
C7_Witness ==
    /\ Returned("dashboard_view")
    /\ Len(ret.vendedores) = 2
    /\ Cardinality(GoalHolders(call.args[2], ret.vendedores)) = 1
    /\ \E i \in 1..2 :
         /\ ret.vendedores[i].vlr_liquido = PyFloat(80, 0)
         /\ ret.vendedores[i].valor_meta = PyFloat(100, 0)
         /\ ret.vendedores[i].percentual_meta = EIGHT_TENTHS
         /\ ret.vendedores[i].meta_status_class = "status-warning"
    /\ ret.summary.meta_status_class = "status-warning"

(***************************************************************************)
(* The summary of a report when no goal is saved for the current period.   *)
(***************************************************************************)
\* the goal entries of the store that match the configured (year, collection)
CurrentGoals(store) ==
    LET config == store.config
    IN  {i \in 1..Len(store.metas_atuais) :
            /\ store.metas_atuais[i].ano = config.ano_atual.m
            /\ store.metas_atuais[i].colecao = config.colecao_atual.s}

NoGoalEmptyStore ==
    /\ Returned("dashboard_view")
    /\ call.args[2].metas_atuais = <<>>
    /\ Len(call.args[1].rows) = 2
    /\ ret.summary.vendedores_sem_meta = 2

(***************************************************************************)
(* Goal saves served concurrently.  The server gives each request a thread *)
(* (app.run, threaded).  admin_metas loads the whole document, changes its *)
(* copy and writes the whole copy back; nothing orders two requests        *)
(* between the load of one and its save.                                   *)
(***************************************************************************)
Threads == {1, 2}

Txt8 == <<"8">>

\* id-less goal saves of two representatives
RaceForms ==
    {MetaForm(None, <<Str(rep), None, None, None>>, <<None, None>>, m) :
        rep \in {Txt7, Txt8}, m \in MetaInputs}

NewWorker == [pc |-> "new", form |-> None, store |-> None, resp |-> Info, edits |-> <<>>]

RaceInit ==
    /\ disk = default_store
    /\ report = NoReport
    /\ req = NoLocals
    /\ resp = Info
    /\ call = NoCall
    /\ ret = Pending
    /\ workers = [t \in Threads |-> NewWorker]
    /\ minted = NoIds

\* load_data_store and the sync with the report, in thread t
WorkerLoad(t) ==
    /\ workers[t].pc \in {"new", "returned"}
    /\ \E form \in RaceForms, loaded \in Loaded :
         workers' = [workers EXCEPT ![t] =
                        [@ EXCEPT !.pc = "loaded", !.form = form,
                                  !.store = loaded, !.resp = Info]]
    /\ UNCHANGED <<disk, report, req, resp, call, ret, minted>>

\* the rest of the handler in thread t: the change of its copy, the save of
\* the whole copy, and the response; edits keeps what t was told it saved
WorkerSave(t) ==
    /\ workers[t].pc = "loaded"
    /\ \E out \in {admin_metas_save(workers[t].store, workers[t].form)} :
         /\ disk' = IF out.saved THEN out.store ELSE disk
         /\ workers' = [workers EXCEPT ![t] =
              [@ EXCEPT !.pc = "returned", !.resp = out.resp,
                        !.edits = IF out.resp = Success
                                  THEN Put(@, <<out.locals.rep_id, out.locals.ano.m,
                                                out.locals.colecao>>,
                                           out.locals.meta_valor)
                                  ELSE @]]
    /\ UNCHANGED <<report, req, resp, call, ret, minted>>

NextRace == \E t \in Threads : WorkerLoad(t) \/ WorkerSave(t)

SpecRace == RaceInit /\ [][NextRace]_vars

\* the goal saved under key is in the document
EditPresent(store, key, meta) ==
    \E i \in 1..Len(store.metas_atuais) :
        KeyOf(store.metas_atuais[i]) = key /\ store.metas_atuais[i].meta = meta

\* the threads that have served a request
Writers == {t \in Threads : workers[t].pc # "new"}

\* the edits thread t was told succeeded and the document does not hold
LostEdits(t) ==
    {key \in DOMAIN workers[t].edits : ~EditPresent(disk, key, workers[t].edits[key])}

\* C12: under a single writer every successful edit is in the persisted
\* store after its request returned (with two writers there is an
\* interleaving in which both report success and the store holds the edit
\* of one only: C12_Witness)
C12_SingleWriterKeepsEdits ==
    (Cardinality(Writers) <= 1) =>
        \A t \in Threads : workers[t].pc = "returned" => LostEdits(t) = {}

\* two requests, each answered with success, one for "7" and one for "8",
\* and the persisted store holds the goal of one of them only
C12_Witness ==
    /\ \A t \in Threads : workers[t].pc = "returned" /\ workers[t].resp = Success
    /\ Cardinality(DOMAIN workers[1].edits) = 1
    /\ Cardinality(DOMAIN workers[2].edits) = 1
    /\ DOMAIN workers[1].edits # DOMAIN workers[2].edits
    /\ Len(disk.metas_atuais) = 1
    /\ LostEdits(1) \cup LostEdits(2) # {}

(***************************************************************************)
(* load_data_store on the file as found.  The file is missing, bytes that  *)
(* are not UTF-8, text that is not JSON, or a JSON value; an object is a   *)
(* function from its keys, an empty object the empty function.             *)
(***************************************************************************)
JMissing == [j |-> "missing"]
JBinary == [j |-> "binary"]
JInvalid == [j |-> "invalid"]
JNull == [j |-> "null"]
JNumber(n) == [j |-> "number", n |-> n]
JString(s) == [j |-> "string", s |-> s]
JArray(items) == [j |-> "array", items |-> items]
JObject(members) == [j |-> "object", members |-> members]

\* bool(value) of a decoded JSON value
JTruthy(value) ==
    CASE value.j = "null" -> FALSE
      [] value.j = "number" -> value.n # 0
      [] value.j = "string" -> value.s # <<>>
      [] value.j = "array" -> value.items # <<>>
      [] value.j = "object" -> DOMAIN value.members # {}

\* data.get(key, default) of a dict
JGet(members, key, default) ==
    IF key \in DOMAIN members THEN members[key] ELSE default

CONFIG_KEYS ==
    {"ano_atual", "colecao_atual", "ano_atual_dazul", "colecao_atual_dazul",
     "ano_atual_saron", "colecao_atual_saron"}

default_config ==
    [key \in CONFIG_KEYS |->
        IF key = "ano_atual" THEN JNumber(NowYear)
        ELSE IF key = "colecao_atual" THEN JString(DEFAULT_COLLECTION)
        ELSE JNull]

\* default_store() as a document
default_document ==
    [key \in {"version", "periodos", "representantes", "metas_atuais",
              "historico_metas", "config"} |->
        CASE key = "version" -> JNumber(2)
          [] key \in {"periodos", "representantes"} -> JObject(<<>>)
          [] key \in {"metas_atuais", "historico_metas"} -> JArray(<<>>)
          [] key = "config" -> JObject(default_config)]

\* current_period(): the clock's year and month
current_period == JString(<<"2", "0", "2", "4", "-", "0", "1">>)

Contains(s, sub) ==
    \E i \in 1..(Len(s) - Len(sub) + 1) : SubSeq(s, i, i + Len(sub) - 1) = sub

METAS == <<"m", "e", "t", "a", "s">>

Document(members) == [k |-> "document", data |-> members]

\* the legacy flat shape, rewritten under its period
LegacyUpgrade(members) ==
    IF "metas" \in DOMAIN members /\ "periodos" \notin DOMAIN members
    THEN LET given == JGet(members, "periodo", JNull)
             period == IF JTruthy(given) THEN given ELSE current_period
             entry == [key \in {"metas", "updated_at"} |->
                          IF key = "metas" THEN members["metas"]
                          ELSE JGet(members, "updated_at", JNull)]
         IN  IF period.j \in {"array", "object"}
             THEN Raised("TypeError")
             ELSE Document([key \in {"periodos"} |->
                              JObject([p \in {period} |-> JObject(entry)])])
    ELSE Document(members)

\* the defaults for missing keys and the types of the five collections
WithDefaults(members) ==
    LET filled == [key \in DOMAIN members \cup DOMAIN default_document |->
                      IF key \in DOMAIN members THEN members[key]
                      ELSE default_document[key]]
        Typed(key, kind, empty) ==
            IF filled[key].j = kind THEN filled[key] ELSE empty
        config == IF filled["config"].j # "object" THEN JObject(default_config)
                  ELSE JObject([key \in DOMAIN filled["config"].members \cup CONFIG_KEYS |->
                                  JGet(filled["config"].members, key, default_config[key])])
    IN  [key \in DOMAIN filled |->
            CASE key \in {"periodos", "representantes"} ->
                   Typed(key, "object", JObject(<<>>))
              [] key \in {"metas_atuais", "historico_metas"} ->
                   Typed(key, "array", JArray(<<>>))
              [] key = "config" -> config
              [] OTHER -> filled[key]]

load_data_store(file) ==
    LET text == IF file = JMissing THEN JObject(default_document) ELSE file
        data == IF text = JInvalid THEN JObject(<<>>) ELSE text
    IN  CASE data = JBinary -> Raised("UnicodeDecodeError")
          [] data.j \in {"null", "number"} -> Raised("TypeError")
          [] data.j = "string" ->
               IF Contains(data.s, METAS) /\ ~Contains(data.s, <<"p", "e", "r", "i", "o", "d", "o", "s">>)
               THEN Raised("AttributeError") ELSE Raised("TypeError")
          [] data.j = "array" ->
               IF \E i \in 1..Len(data.items) : data.items[i] = JString(METAS)
               THEN Raised("AttributeError") ELSE Raised("TypeError")
          [] data.j = "object" ->
               LET upgraded == LegacyUpgrade(data.members)
               IN  IF upgraded.k = "raised" THEN upgraded
                   ELSE Document(WithDefaults(upgraded.data))

\* what a key of the file holds: nothing, or a value of some type
Absent == [j |-> "absent"]
FILE_KEYS ==
    <<"periodos", "representantes", "metas_atuais", "historico_metas", "config",
      "metas", "periodo">>

Members(held) ==
    [key \in {FILE_KEYS[i] : i \in {j \in 1..Len(FILE_KEYS) : held[j] # Absent}} |->
        held[CHOOSE i \in 1..Len(FILE_KEYS) : FILE_KEYS[i] = key]]

ObjectInputs ==
    {JObject(Members(<<p, r, m, h, c, flat, period>>)) :
        p \in {Absent, JObject(<<>>), JArray(<<>>)},
        r \in {Absent, JObject(<<>>), JNull},
        m \in {Absent, JArray(<<>>), JObject(<<>>)},
        h \in {Absent, JArray(<<>>), JString(<<"x">>)},
        c \in {Absent, JObject(<<>>), JNull,
               JObject([key \in {"ano_atual"} |-> JNumber(NowYear - 1)])},
        flat \in {Absent, JObject(<<>>)},
        period \in {Absent, JString(<<"2", "0", "2", "3", "-", "1", "2">>),
                    JArray(<<>>), JArray(<<JNumber(1)>>)}}

FileInputs ==
    {JMissing, JBinary, JInvalid, JNull, JNumber(0), JNumber(5), JString(<<>>),
     JString(METAS), JArray(<<>>), JArray(<<JString(METAS)>>)}
        \cup ObjectInputs

LoadInit ==
    /\ StoreIdle
    /\ call \in {[fn |-> "load_data_store", args |-> <<file>>] : file \in FileInputs}
    /\ ret = Pending

CallLoadDataStore ==
    /\ call.fn = "load_data_store"
    /\ ret = Pending
    /\ ret' = load_data_store(call.args[1])
    /\ UNCHANGED <<disk, report, req, resp, call, workers, minted>>

SpecLoad == LoadInit /\ [][CallLoadDataStore]_vars

\* periodos and representantes are mappings, metas_atuais and
\* historico_metas lists, config a mapping with every default key
WellFormed(data) ==
    /\ {"periodos", "representantes", "metas_atuais", "historico_metas", "config"}
           \subseteq DOMAIN data
    /\ data["periodos"].j = "object"
    /\ data["representantes"].j = "object"
    /\ data["metas_atuais"].j = "array"
    /\ data["historico_metas"].j = "array"
    /\ data["config"].j = "object"
    /\ CONFIG_KEYS \subseteq DOMAIN data["config"].members

\* C13: load_data_store never fails on a malformed persisted document:
\* whatever the file holds (invalid JSON, JSON that is not an object, an
\* object with missing or wrongly typed keys, the legacy flat metas/periodo
\* shape) it returns a document in which periodos and representantes are
\* mappings, metas_atuais and historico_metas lists, and config a mapping
\* with every default config key.
C13_LoadNeverFails ==
    Returned("load_data_store") => (ret.k = "document" /\ WellFormed(ret.data))

\* the part that holds: text that is not JSON, and every object whose
\* legacy periodo is not a non-empty list or object, loads well-formed
ObjectsLoadWellFormed ==
    (/\ Returned("load_data_store")
     /\ call.args[1].j \in {"missing", "invalid", "object"}
     /\ call.args[1].j = "object" =>
          JGet(call.args[1].members, "periodo", JNull) # JArray(<<JNumber(1)>>))
        => (ret.k = "document" /\ WellFormed(ret.data))

(***************************************************************************)
(* The dashboard's view of tables that carry some of the canonical columns.*)
(***************************************************************************)
\* the canonical columns and a cell for each of the two rows
CanonicalCells ==
    <<  <<CODIGO, Str(<<"1">>), Str(<<"2">>)>>,
        <<NOME_VENDEDOR, Str(TxtAna), Str(TxtBia)>>,
        <<VLR_LIQUIDO, PyFloat(1505, 1), PyFloat(80, 0)>>,
        <<TOTAL_PEDIDOS, PyInt(2), PyInt(1)>>,
        <<TOTAL_CLIENTES, PyInt(2), PyInt(0)>>,
        <<QTDEITEM, PyInt(3), PyInt(4)>>,
        <<CLIENTES_ATIVOS, PyInt(1), PyInt(0)>>,
        <<CLIENTES_NOVOS, PyInt(0), PyInt(1)>>  >>

\* the table of n rows that carries the chosen columns, in their order
ColumnsReport(chosen, n) ==
    LET kept == SelectSeq(CanonicalCells, LAMBDA column : column[1] \in chosen)
    IN  DataFrame([c \in 1..Len(kept) |-> kept[c][1]],
                  [r \in 1..n |-> [c \in 1..Len(kept) |-> kept[c][r + 1]]])

ColumnsInit ==
    /\ StoreIdle
    /\ call \in {[fn |-> "dashboard_view",
                  args |-> <<ColumnsReport(chosen, n), AttainStore(<<PyFloat(100, 0)>>)>>] :
                    chosen \in SUBSET {CanonicalCells[c][1] : c \in 1..Len(CanonicalCells)},
                    n \in 1..2}
    /\ ret = Pending

SpecColumns == ColumnsInit /\ [][CallDashboardView]_vars

Missing(label) == label \notin Labels(call.args[1])

\* C14: for every subset of the canonical columns present in the normalized
\* table (a table with VLR_LIQUIDO but no TOTAL_PEDIDOS or TOTAL_CLIENTES,
\* or with no VLR_LIQUIDO at all, included), build_summary, build_insights,
\* build_vendedores and build_rankings complete and put a zero or empty
\* default for each value derived from a missing column; none of them fails
\* on a missing column.
C14_MissingColumnsDegrade ==
    Returned("dashboard_view") =>
        /\ ret.k = "view"
        /\ Missing(QTDEITEM) => ret.summary.total_itens = PyInt(0)
        /\ Missing(VLR_LIQUIDO) =>
             /\ NumEq(ret.summary.total_vendas, ZERO)
             /\ ret.summary.ranking_vendas = <<>>
             /\ NumEq(ret.insights["ticket_medio"], ZERO)
        /\ Missing(TOTAL_PEDIDOS) =>
             /\ ret.summary.total_pedidos = PyInt(0)
             /\ NumEq(ret.insights["media_pedidos_por_cliente"], ZERO)
        /\ Missing(TOTAL_CLIENTES) =>
             /\ ret.summary.total_clientes = PyInt(0)
             /\ NumEq(ret.insights["clientes_por_vendedor"], ZERO)
        /\ Missing(CLIENTES_ATIVOS) =>
             /\ ret.summary.clientes_ativos = PyInt(0)
             /\ ret.summary.vendedores_sem_clientes_ativos = 0
        /\ Missing(CLIENTES_NOVOS) =>
             /\ ret.summary.clientes_novos = PyInt(0)
             /\ ret.summary.top_clientes_novos.clientes_novos = PyInt(0)

\* the part that holds: a table that carries NOME_VENDEDOR, VLR_LIQUIDO,
\* TOTAL_PEDIDOS and TOTAL_CLIENTES is served whatever else it lacks
CoreColumnsSuffice ==
    (/\ Returned("dashboard_view")
     /\ ~Missing(NOME_VENDEDOR) /\ ~Missing(VLR_LIQUIDO)
     /\ ~Missing(TOTAL_PEDIDOS) /\ ~Missing(TOTAL_CLIENTES))
        => ret.k = "view"

\* the tables that are served are those that carry NOME_VENDEDOR, VLR_LIQUIDO
\* and TOTAL_PEDIDOS, and TOTAL_CLIENTES when they carry CLIENTES_ATIVOS
ServedTables ==
    Returned("dashboard_view") =>
        (ret.k = "view" <=>
            /\ ~Missing(NOME_VENDEDOR) /\ ~Missing(VLR_LIQUIDO)
            /\ ~Missing(TOTAL_PEDIDOS)
            /\ ~Missing(CLIENTES_ATIVOS) => ~Missing(TOTAL_CLIENTES))

(***************************************************************************)
(* normalize_columns under call, on the header sets of exports.            *)
(***************************************************************************)
\* the headers an export may carry, in the order of its columns
HeaderPool ==
    <<VENDEDOR, CODIGO, NOME_VENDEDOR, DOCUMENTO, NUM_OS, CODIGO_PEDIDO, NUM_PE,
      NUM_FA, TOTAL_NOTA, TOTAL_BRUTO, CLIENTE>>

\* the header as typed: upper case, or lower case after a blank
Typed(label, irregular) == IF irregular THEN <<" ">> \o Lower(label) ELSE label

\* the export of one row that carries the chosen headers, each cell
\* telling the column it was typed under
HeadersReport(chosen, irregular) ==
    LET kept == SelectSeq(HeaderPool, LAMBDA label : label \in chosen)
    IN  DataFrame([c \in 1..Len(kept) |-> Typed(kept[c], irregular)],
                  << [c \in 1..Len(kept) |-> Str(kept[c])] >>)

HeadersInit ==
    /\ StoreIdle
    /\ call \in {[fn |-> "normalize_columns", args |-> <<HeadersReport(chosen, irregular)>>] :
                    chosen \in SUBSET {HeaderPool[c] : c \in 1..Len(HeaderPool)},
                    irregular \in BOOLEAN}
    /\ ret = Pending

CallNormalizeColumns ==
    /\ call.fn = "normalize_columns"
    /\ ret = Pending
    /\ ret' = normalize_columns(call.args[1])
    /\ UNCHANGED <<disk, report, req, resp, call, workers, minted>>

SpecHeaders == HeadersInit /\ [][CallNormalizeColumns]_vars

\* the headers of the export, upper case and trimmed
HeaderSet(df) == {Upper(Strip(df.columns[c])) : c \in 1..Len(df.columns)}

\* the label the result gives to the column typed under header
LabelOf(header) ==
    ret.columns[CHOOSE c \in 1..Len(ret.columns) : call.args[1].rows[1][c] = Str(header)]

OrderSignals ==
    {DOCUMENTO, NUM_OS, CODIGO_PEDIDO, NUM_PE, NUM_FA, TOTAL_NOTA, TOTAL_BRUTO, CLIENTE}

\* C15 as stated: whenever the header set contains the generic code column
\* CODIGO together with at least one order-level signal column (DOCUMENTO,
\* NUM_OS, CODIGO_PEDIDO, NUM_PE, NUM_FA, TOTAL_NOTA, TOTAL_BRUTO, CLIENTE),
\* CODIGO is renamed CODIGO_PEDIDO and is not the representative code.
C15_CodeWithSignalIsOrderId ==
    (/\ Returned("normalize_columns")
     /\ CODIGO \in HeaderSet(call.args[1])
     /\ OrderSignals \cap HeaderSet(call.args[1]) # {})
        => LabelOf(CODIGO) = CODIGO_PEDIDO

\* C15 as amended: whenever the header set contains VENDEDOR and the generic
\* code column CODIGO together with at least one order-level signal column,
\* CODIGO is renamed CODIGO_PEDIDO and is not the representative code: the
\* only column the result may label CODIGO is the one typed VENDEDOR.
C15_CodeBesideVendedorIsOrderId ==
    (/\ Returned("normalize_columns")
     /\ {VENDEDOR, CODIGO} \subseteq HeaderSet(call.args[1])
     /\ OrderSignals \cap HeaderSet(call.args[1]) # {})
        => /\ LabelOf(CODIGO) = CODIGO_PEDIDO
           /\ \A c \in 1..Len(ret.columns) :
                ret.columns[c] = CODIGO => call.args[1].rows[1][c] = Str(VENDEDOR)

\* an export typed " vendedor", " codigo", " nome_vendedor", " cliente": the
\* result labels them CODIGO, CODIGO_PEDIDO, NOME_VENDEDOR, CLIENTE
C15_Witness ==
    /\ Returned("normalize_columns")
    /\ call.args[1].columns =
         <<Typed(VENDEDOR, TRUE), Typed(CODIGO, TRUE), Typed(NOME_VENDEDOR, TRUE),
           Typed(CLIENTE, TRUE)>>
    /\ ret.columns = <<CODIGO, CODIGO_PEDIDO, NOME_VENDEDOR, CLIENTE>>

(***************************************************************************)
(* Report syncs and goal saves that submit no status for a representative  *)
(* the store already holds (a save may submit the status of a new one).    *)
(***************************************************************************)
StatusSave(maxId) ==
    \E i \in GoalIdInputs(maxId), r \in RepInputs, p \in PeriodInputs,
       m \in MetaInputs, loaded \in Loaded :
        \E out \in {admin_metas_save(loaded, MetaForm(i, r, p, m))} :
            /\ r[4] = None \/ out.locals.rep_id \notin RepIds(loaded.representantes)
            /\ IdsWithin(out.store.metas_atuais, maxId)
            /\ Finish(loaded, out)

NextStatus ==
    \/ Respond
    \/ Idle /\ AdminUpload
    \/ Idle /\ Dashboard
    \/ Idle /\ StatusSave(MaxMetaId)

SpecStatus == Init /\ [][NextStatus]_vars

\* C16: for a representative the store already holds, neither a report sync
\* nor a goal save that submits no status changes the stored status: a
\* representative stored as NOVO stays NOVO after any sequence of such
\* operations.
C16_StatusKept ==
    [][\A old \in disk.representantes : \A new \in disk'.representantes :
          new.id = old.id => new.status = old.status]_vars

\* the part that holds: a report sync leaves every stored record as it is
SyncKeepsRecords ==
    [][(req'.handler \in {"dashboard", "admin"}) =>
          disk.representantes \subseteq disk'.representantes]_vars

(***************************************************************************)
(* Saves and deletes of goal and history entries, with the history of the  *)
(* ids given so far.                                                       *)
(***************************************************************************)
IdsOf(items) == {items[i].id : i \in 1..Len(items)}

\* the request's end, the ids of the saved lists joining the history
IdsFinish(loaded, out, maxId) ==
    /\ IdsWithin(out.store.metas_atuais, maxId)
    /\ IdsWithin(out.store.historico_metas, maxId)
    /\ disk' = IF out.saved THEN out.store ELSE loaded
    /\ req' = out.locals
    /\ resp' = out.resp
    /\ minted' = IF out.saved
                 THEN [metas_atuais |-> minted.metas_atuais \cup IdsOf(out.store.metas_atuais),
                       historico_metas |->
                           minted.historico_metas \cup IdsOf(out.store.historico_metas)]
                 ELSE minted
    /\ UNCHANGED <<report, call, ret, workers>>

IdsMetasSave(maxId) ==
    \E i \in GoalIdInputs(maxId), rep \in {Txt7, Txt8}, loaded \in Loaded :
        IdsFinish(loaded,
                  admin_metas_save(loaded,
                      MetaForm(i, <<Str(rep), None, None, None>>, <<None, None>>,
                               Str(<<"1", "0", "0">>))),
                  maxId)

IdsMetasDelete(maxId) ==
    \E i \in GoalIdInputs(maxId), loaded \in Loaded :
        IdsFinish(loaded, admin_metas_delete(loaded, [meta_id |-> i]), maxId)

IdsHistoricoSave(maxId) ==
    \E i \in GoalIdInputs(maxId), r \in HistRepInputs, z \in HistRealizadoInputs,
       loaded \in Loaded :
        IdsFinish(loaded,
                  admin_historico_save(loaded,
                      HistForm(i, r, Str(Txt2023), Str(Lower(INVERNO)),
                               Str(<<"1", "0", "0">>), z)),
                  maxId)

IdsHistoricoDelete(maxId) ==
    \E i \in GoalIdInputs(maxId), loaded \in Loaded :
        IdsFinish(loaded, admin_historico_delete(loaded, [entry_id |-> i]), maxId)

MaxIds == 3

NextIds ==
    \/ Respond
    \/ Idle /\ IdsMetasSave(MaxIds)
    \/ Idle /\ IdsMetasDelete(MaxIds)
    \/ Idle /\ IdsHistoricoSave(MaxIds)
    \/ Idle /\ IdsHistoricoDelete(MaxIds)

SpecIds == Init /\ [][NextIds]_vars

\* the step appends an entry to the list
Appends(before, after) ==
    Len(after) = Len(before) + 1 /\ SubSeq(after, 1, Len(before)) = before

\* the id of a newly appended entry is above every id given before
MintedAbove(before, after, given) ==
    Appends(before, after) => \A id \in given : id < after[Len(after)].id

\* C17: goal and history entry ids are monotonically assigned: over any
\* sequence of saves and deletes the id minted for a newly appended entry
\* is strictly greater than every id previously assigned in that list, so
\* the id of a deleted entry is never given to a later entry.
C17_IdsMonotonic ==
    [][/\ MintedAbove(disk.metas_atuais, disk'.metas_atuais, minted.metas_atuais)
       /\ MintedAbove(disk.historico_metas, disk'.historico_metas,
                      minted.historico_metas)]_vars

\* the part that holds: a new id is above every id the list holds
MintedAboveHeld ==
    [][/\ MintedAbove(disk.metas_atuais, disk'.metas_atuais, IdsOf(disk.metas_atuais))
       /\ MintedAbove(disk.historico_metas, disk'.historico_metas,
                      IdsOf(disk.historico_metas))]_vars

\* the ids of a list are pairwise distinct
DistinctIds(items) ==
    \A i, j \in 1..Len(items) : items[i].id = items[j].id => i = j

\* an appended entry has the id max + 1, or 1 in an empty list
AppendedNext(before, after) ==
    Appends(before, after) =>
        after[Len(after)].id =
            IF before = <<>> THEN 1
            ELSE 1 + CHOOSE m \in IdsOf(before) : \A id \in IdsOf(before) : id <= m

\* C18: in every store state reachable from the empty store by saves,
\* updates and deletes, the ids within metas_atuais are pairwise distinct
\* and the ids within historico_metas are pairwise distinct; each appended
\* entry gets id = max existing id + 1, or 1 when the list is empty.
C18_IdsDistinct ==
    /\ [](DistinctIds(disk.metas_atuais) /\ DistinctIds(disk.historico_metas))
    /\ [][/\ AppendedNext(disk.metas_atuais, disk'.metas_atuais)
          /\ AppendedNext(disk.historico_metas, disk'.historico_metas)]_vars

\* after a delete in the middle and an append: goals 1 and 3 are held, 2
\* was deleted, and the history holds its first entry
C18_Witness ==
    /\ IdsOf(disk.metas_atuais) = {1, 3}
    /\ minted.metas_atuais = {1, 2, 3}
    /\ IdsOf(disk.historico_metas) = {1}

(***************************************************************************)
(* load_report on order-level exports in which a code comes with more than *)
(* one name, or no code with names that differ in case.                    *)
(***************************************************************************)
GroupRowInputs ==
    {<<code, Str(name), Str(order), Str(<<"5", "0", "0">>)>> :
        code \in {Str(<<"1">>), NaN},
        name \in {TxtAna, Upper(TxtAna), TxtBia},
        order \in {<<"A">>, <<"B">>}}

RECURSIVE GroupRowsUpTo(_)
GroupRowsUpTo(n) ==
    IF n = 0 THEN {<<>>}
    ELSE LET shorter == GroupRowsUpTo(n - 1)
         IN  shorter \cup {Append(rows, row) : rows \in shorter, row \in GroupRowInputs}

GroupsInit ==
    /\ StoreIdle
    /\ call \in {[fn |-> "load_report",
                  args |-> <<DataFrame(ReportLabels(DOCUMENTO), rows)>>] :
                    rows \in GroupRowsUpTo(MaxRows) \ {<<>>}}
    /\ ret = Pending

SpecGroups == GroupsInit /\ [][CallLoadReport]_vars

\* the identifier a row of the result resolves to
RowIdentifier(df, g) ==
    normalize_identifier(RowGet(df, g, CODIGO), RowGet(df, g, NOME_VENDEDOR))

\* C19: the Order Aggregator outputs one row per representative: for every
\* order-level input no two rows of the output resolve to the same
\* identifier under normalize_identifier, inputs in which one code appears
\* with two names included.
C19_OneRowPerIdentifier ==
    Returned("load_report") =>
        \A g, h \in 1..Len(ret.rows) :
            RowIdentifier(ret, g) = RowIdentifier(ret, h) => g = h

\* the part that holds: no two rows of the output have the same
\* (CODIGO, NOME_VENDEDOR)
OneRowPerCodeAndName ==
    Returned("load_report") =>
        \A g, h \in 1..Len(ret.rows) :
            (/\ RowGet(ret, g, CODIGO) = RowGet(ret, h, CODIGO)
             /\ RowGet(ret, g, NOME_VENDEDOR) = RowGet(ret, h, NOME_VENDEDOR)) => g = h

\* a * n = v, the three read as decimals
ProductIs(a, n, v) ==
    /\ IsNum(a) /\ IsNum(n) /\ IsNum(v)
    /\ a.m * n.m * Pow10(v.e) = v.m * Pow10(a.e + n.e)

\* C20: for every row the aggregation path of load_report returns,
\* MEDIA_PEDIDOS x TOTAL_PEDIDOS equals VLR_LIQUIDO when TOTAL_PEDIDOS > 0
\* and MEDIA_PEDIDOS is 0 when TOTAL_PEDIDOS is 0; QTDE_MEDIA and
\* PRECO_MEDIO are 0 when their denominator (TOTAL_PEDIDOS, QTDEITEM) is 0,
\* and no division by zero occurs.
C20_AveragesMatchTotals ==
    (Returned("load_report") /\ ~IsAggregated(call.args[1])) =>
        \A g \in 1..Len(ret.rows) :
            LET total_pedidos == RowGet(ret, g, TOTAL_PEDIDOS)
                qtdeitem == RowGet(ret, g, QTDEITEM)
                media_pedidos == RowGet(ret, g, MEDIA_PEDIDOS)
            IN  /\ IsNum(total_pedidos) /\ IsNum(qtdeitem)
                /\ NumLess(PyInt(0), total_pedidos) =>
                     ProductIs(media_pedidos, total_pedidos, RowGet(ret, g, VLR_LIQUIDO))
                /\ NumEq(total_pedidos, PyInt(0)) =>
                     /\ NumEq(media_pedidos, PyInt(0))
                     /\ NumEq(RowGet(ret, g, QTDE_MEDIA), PyInt(0))
                /\ NumEq(qtdeitem, PyInt(0)) =>
                     NumEq(RowGet(ret, g, PRECO_MEDIO), PyInt(0))

\* the part that holds: the averages are numbers, and PRECO_MEDIO and
\* QTDE_MEDIA are 0 for a representative without items
ZeroItemsGiveZeroAverages ==
    (Returned("load_report") /\ ~IsAggregated(call.args[1])) =>
        \A g \in 1..Len(ret.rows) :
            /\ IsNum(RowGet(ret, g, MEDIA_PEDIDOS))
            /\ NumEq(RowGet(ret, g, QTDEITEM), PyInt(0)) =>
                 /\ NumEq(RowGet(ret, g, PRECO_MEDIO), PyInt(0))
                 /\ NumEq(RowGet(ret, g, QTDE_MEDIA), PyInt(0))


(***************************************************************************)
(* build_rankings under call, on the lists build_vendedores gives for      *)
(* reports of up to MaxRanked representatives named "1", "2", ...          *)
(***************************************************************************)
MaxRanked == 6

\* VLR_LIQUIDO cells: 80, 150.5
RankedNets == {PyFloat(80, 0), PyFloat(1505, 1)}

\* the goal of a representative: none saved, 100
RankedGoals == {None, PyFloat(100, 0)}

RankedReport(nets) ==
    DataFrame(<<CODIGO, NOME_VENDEDOR, VLR_LIQUIDO>>,
              [i \in 1..Len(nets) |-> <<Str(IntStr(i)), Str(IntStr(i)), nets[i]>>])

RankedVendedores(nets, goals) ==
    LET store == AttainStore(goals)
        config == get_current_config(store)
    IN  build_vendedores(RankedReport(nets),
                         build_metas_map(store, config.ano_atual, config.colecao_atual))

RankingsInit ==
    /\ StoreIdle
    /\ call \in {[fn |-> "build_rankings", args |-> <<RankedVendedores(nets, goals)>>] :
                    <<nets, goals>> \in
                        UNION {TuplesOf(RankedNets, n) \X TuplesOf(RankedGoals, n) :
                                  n \in 1..MaxRanked}}
    /\ ret = Pending

CallBuildRankings ==
    /\ call.fn = "build_rankings"
    /\ ret = Pending
    /\ ret' = build_rankings(call.args[1])
    /\ UNCHANGED <<disk, report, req, resp, call, workers, minted>>

SpecRankings == RankingsInit /\ [][CallBuildRankings]_vars

\* the place in the list of the representative named nome
PlaceOf(vendedores, nome) ==
    CHOOSE i \in 1..Len(vendedores) : vendedores[i].nome = nome

\* the key a ranking sorts a representative by
RankingKey(ranking, vendedor) ==
    CASE ranking = "valor" -> vendedor.vlr_liquido
      [] ranking = "atingimento" -> vendedor.percentual_meta
      [] ranking = "gap" ->
           IF vendedor.gap_meta = None THEN None
           ELSE IF NumLess(vendedor.gap_meta, PyInt(0)) THEN PyInt(0)
           ELSE vendedor.gap_meta

\* a top (descending) or bottom list of a ranking, as stated
RankingListAsStated(vendedores, ranking, items, descending) ==
    /\ Len(items) <= 5
    /\ \A i \in 1..Len(items) :
          LET vendedor == vendedores[PlaceOf(vendedores, items[i].nome)]
          IN  /\ \E p \in 1..Len(vendedores) : vendedores[p].nome = items[i].nome
              /\ items[i].valor = RankingKey(ranking, vendedor)
              /\ ranking # "valor" =>
                   /\ vendedor.percentual_meta # None
                   /\ FGreater(vendedor.valor_meta, ZERO)
              /\ ranking = "gap" => ~NumLess(items[i].valor, PyInt(0))
    /\ \A i, j \in 1..Len(items) :
          i < j =>
              /\ IF descending THEN ~NumLess(items[i].valor, items[j].valor)
                 ELSE ~NumLess(items[j].valor, items[i].valor)
              /\ NumEq(items[i].valor, items[j].valor) =>
                   PlaceOf(vendedores, items[i].nome) < PlaceOf(vendedores, items[j].nome)

\* C21: build_rankings returns three rankings (net value, attainment ratio,
\* shortfall), each with a top and a bottom list of at most 5 items; the
\* attainment and shortfall lists hold only representatives with a goal,
\* every shortfall listed is >= 0, and representatives with equal keys
\* appear in the order of the list given to build_rankings.
C21_RankingsAsStated ==
    Returned("build_rankings") =>
        /\ DOMAIN ret = {"valor", "atingimento", "gap"}
        /\ \A ranking \in DOMAIN ret :
              /\ DOMAIN ret[ranking] = {"top", "bottom"}
              /\ RankingListAsStated(call.args[1], ranking, ret[ranking].top, TRUE)
              /\ RankingListAsStated(call.args[1], ranking, ret[ranking].bottom, FALSE)

\* more than five representatives with a goal, two of them level, one past
\* its goal
C21_Witness ==
    /\ Returned("build_rankings")
    /\ Len(call.args[1]) > 5
    /\ Len(ret.gap.top) = 5
    /\ Len(ret.valor.bottom) = 5
    /\ \E i, j \in 1..5 : i < j /\ NumEq(ret.atingimento.top[i].valor,
                                         ret.atingimento.top[j].valor)
    /\ \E i \in 1..Len(call.args[1]) :
          /\ call.args[1][i].gap_meta # None
          /\ NumLess(call.args[1][i].gap_meta, PyInt(0))
          /\ \E p \in 1..5 : ret.gap.bottom[p].nome = call.args[1][i].nome


(***************************************************************************)
(* normalize_numeric_columns under call, on one VLR_LIQUIDO column of up   *)
(* to MaxCells cells: pt-BR texts as exported, and numbers as a            *)
(* spreadsheet or the aggregator holds them.                               *)
(***************************************************************************)
MaxCells == 3

\* "1.000,00", "500,50", "500", 500, 500.5, 1000.0, a missing cell
NumericCells ==
    {Str(<<"1", ".", "0", "0", "0", ",", "0", "0">>), Str(<<"5", "0", "0", ",", "5", "0">>),
     Str(<<"5", "0", "0">>), PyInt(500), PyFloat(5005, 1), PyFloat(1000, 0), NaN}

NumericInit ==
    /\ StoreIdle
    /\ call \in {[fn |-> "normalize_numeric_columns",
                  args |-> <<DataFrame(<<VLR_LIQUIDO>>,
                                       [r \in 1..n |-> <<cells[r]>>])>>] :
                    <<n, cells>> \in
                        UNION {{n} \X ({c \in TuplesOf(NumericCells, n) :
                                           \A r \in 1..n : c[r].k = "str"}
                                       \cup
                                       {AsSeries(c) : c \in
                                           {d \in TuplesOf(NumericCells, n) :
                                               \A r \in 1..n : d[r].k # "str"}}) :
                                  n \in 1..MaxCells}}
    /\ ret = Pending

CallNormalizeNumericColumns ==
    /\ call.fn = "normalize_numeric_columns"
    /\ ret = Pending
    /\ ret' = normalize_numeric_columns(call.args[1])
    /\ UNCHANGED <<disk, report, req, resp, call, workers, minted>>

SpecNumeric == NumericInit /\ [][CallNormalizeNumericColumns]_vars

\* two columns hold the same numbers, missing where the other is missing
SameNumbers(a, b) ==
    /\ Len(a) = Len(b)
    /\ \A r \in 1..Len(a) :
          IF IsNull(a[r]) \/ IsNull(b[r]) THEN IsNull(a[r]) /\ IsNull(b[r])
          ELSE IsNum(a[r]) /\ IsNum(b[r]) /\ NumEq(a[r], b[r])

\* every cell of the column is a number or missing
IsNumericColumn(cells) == \A r \in 1..Len(cells) : cells[r].k # "str"

\* C22: normalize_numeric_columns leaves a column that already holds
\* numbers unchanged, so applying it to its own output returns the same
\* values.
C22_NumericUnchanged ==
    Returned("normalize_numeric_columns") =>
        /\ IsNumericColumn(ColumnOf(call.args[1], VLR_LIQUIDO)) =>
             SameNumbers(ColumnOf(ret, VLR_LIQUIDO), ColumnOf(call.args[1], VLR_LIQUIDO))
        /\ SameNumbers(ColumnOf(normalize_numeric_columns(ret), VLR_LIQUIDO),
                       ColumnOf(ret, VLR_LIQUIDO))

\* the part that holds: a column of integers (int64) comes back as it was
IntegerColumnsUnchanged ==
    (/\ Returned("normalize_numeric_columns")
     /\ \A r \in 1..Len(call.args[1].rows) :
           ColumnOf(call.args[1], VLR_LIQUIDO)[r].k = "int") =>
        SameNumbers(ColumnOf(ret, VLR_LIQUIDO), ColumnOf(call.args[1], VLR_LIQUIDO))


(***************************************************************************)
(* Reading a goal back after saving it.                                    *)
(***************************************************************************)
\* the goal save just served succeeded and was for the configured period
SavedForCurrentPeriod ==
    /\ GoalSaveRequest(req)
    /\ resp.message_type = "success"
    /\ req.ano.m = get_current_config(disk).ano_atual
    /\ req.colecao = get_current_config(disk).colecao_atual

\* C23: after any sequence of goal saves and deletes, a successful goal save
\* of value v for representative r at the configured current year and
\* collection is followed by build_metas_map(current year, current
\* collection) mapping r to an entry whose goal value is v.
C23_ReadYourWrites ==
    SavedForCurrentPeriod =>
        LET config == get_current_config(disk)
            metas_map == build_metas_map(disk, config.ano_atual, config.colecao_atual)
        IN  /\ req.rep_id \in DOMAIN metas_map
            /\ metas_map[req.rep_id].meta = req.meta_valor

\* the part that holds: some entry of that representative and period holds
\* the value saved, and while the key has one entry the map reads it back
SavedGoalIsStored ==
    SavedForCurrentPeriod =>
        LET config == get_current_config(disk)
            key == <<req.rep_id, config.ano_atual, config.colecao_atual>>
            metas_map == build_metas_map(disk, config.ano_atual, config.colecao_atual)
        IN  /\ \E i \in EntriesFor(disk.metas_atuais, key) :
                  disk.metas_atuais[i].meta = req.meta_valor
            /\ Cardinality(EntriesFor(disk.metas_atuais, key)) = 1 =>
                  /\ req.rep_id \in DOMAIN metas_map
                  /\ metas_map[req.rep_id].meta = req.meta_valor


(***************************************************************************)
(* The headers normalize_columns returns.                                  *)
(***************************************************************************)
\* no label is carried by two columns
DistinctHeaders(columns) ==
    \A c, d \in 1..Len(columns) : c # d => columns[c] # columns[d]

\* C24: for every input header set with pairwise distinct headers,
\* normalize_columns returns a table whose headers are still pairwise
\* distinct: no canonical name is carried by two columns after renaming.
C24_HeadersStayDistinct ==
    (/\ Returned("normalize_columns")
     /\ DistinctHeaders(call.args[1].columns)
     /\ Cardinality(HeaderSet(call.args[1])) = Len(call.args[1].columns))
        => DistinctHeaders(ret.columns)

\* the part that holds on these exports: a label carried by two columns is
\* CODIGO or CODIGO_PEDIDO, and the export had VENDEDOR beside CODIGO
OnlyCodesRepeat ==
    Returned("normalize_columns") =>
        \A c, d \in 1..Len(ret.columns) :
            (c # d /\ ret.columns[c] = ret.columns[d]) =>
                /\ ret.columns[c] \in {CODIGO, CODIGO_PEDIDO}
                /\ {VENDEDOR, CODIGO} \subseteq HeaderSet(call.args[1])

=============================================================================
